---- MODULE Spec2Model ----
(***************************************************************************)
(* NoiseShaper: the spectral plateau filter.                               *)
(*                                                                         *)
(* The module models                                                       *)
(*   - PlateauProcessor (worklets/plateau-processor.js): Complex, fft,     *)
(*     ifft, createPlateauFilterMask, handleMessage and process;           *)
(*   - PlateauFilter (js/audio/filters/plateau.js): the constructor with   *)
(*     _createWorkletProcessor and _setupFallbackProcessor, the setters,   *)
(*     _updateParameters, the fallback callback _processAudio,             *)
(*     calculateFrequencyResponse and the node wiring (connect /           *)
(*     disconnect);                                                        *)
(*   - WhiteNoiseGenerator (same file): the filter list, addFilter,        *)
(*     removeFilter, _rebuildFilterChain, start and stop;                  *)
(*   - the mask helpers of webbeta2/ftt.js;                                *)
(*   - UIControls, AppEvents and AudioContextManager: the filter list of   *)
(*     the page, the playback toggle and the first initialisation;         *)
(*   - NoiseShaperUI (webbeta2/ui.js): playAudio, stopAudio,               *)
(*     updateWorkletParameters and generateFilteredNoise;                  *)
(*   - MulberryRNG (webbeta2/rng.js), on 32-bit words kept as two 16-bit   *)
(*     halves.                                                             *)
(*                                                                         *)
(* Numbers.  A JavaScript number is modelled as an exact rational <<n, d>> *)
(* (d > 0, lowest terms); the rounding of IEEE doubles and of Float32Array *)
(* stores is not modelled.  An angle is given in units of pi.  CosPi is    *)
(* exact at every multiple of pi/3 and of pi/2 (the angles whose cosine is *)
(* rational) and interpolates linearly between those knots elsewhere, so   *)
(* fft and ifft are exact discrete Fourier transforms for lengths 1, 2, 4  *)
(* and approximate ones for length 8.                                      *)
(*                                                                         *)
(* Scale.  The source runs frames of fftSize = 2048 fed by render quanta   *)
(* of 128 samples, and a ScriptProcessorNode buffer of 2048 samples; the   *)
(* model keeps the same shape (a block shorter than half a frame, a script *)
(* buffer of one frame) with fftSize = 8, BlockSize = 2 and                *)
(* ScriptBufferSize = 8.  The sample rate of the context is 48000 where    *)
(* the filter runs; the mask generators are also called at 8000 and 44100, *)
(* and once at the full size of 2048 bins.  The transforms on their own    *)
(* and the all-pass pipeline run at lengths up to 4, where the cosines are *)
(* exact.                                                                  *)
(***************************************************************************)
EXTENDS Integers, Sequences, FiniteSets, TLC

VARIABLES
    processor,      \* PlateauProcessor instance fields
    parameters,     \* the node's four k-rate AudioParam values
    output,         \* the output block of the last process() call
    blockInfo,      \* what the last process() call did (history)
    blocks,         \* number of process() calls so far
    filter,         \* PlateauFilter instance fields
    fallbackOutput, \* the output block of the last _processAudio call
    fallbackInfo,   \* what the last _processAudio call read (history)
    fallbackBlocks, \* number of _processAudio calls so far
    updates,        \* number of control-side calls so far
    received,       \* messages handled since the last process() call
    sampleRate,     \* the sample rate of the audio context (a global of the
                    \* worklet scope, context.sampleRate on the control side)
    maskCall,       \* the arguments of the last mask generator call
    masks,          \* what the mask generators returned for maskCall
    links,          \* the connections of the audio graph: <<from, to>>
    procKind,       \* per PlateauFilter of the graph: its this.processor
    suspended,      \* the filters disconnect() was called on (history)
    filters,        \* WhiteNoiseGenerator.filters, as filter ids
    noiseNode,      \* WhiteNoiseGenerator.noiseNode: a node id, 0 for null
    noiseCount,     \* noise nodes created so far
    isPlaying,      \* WhiteNoiseGenerator.isPlaying
    pendingStarts,  \* start() calls awaiting _loadNoiseWorklet()
    lastCall,       \* the last of start() and stop() called (history)
    host,           \* what the page offers: audioWorklet, protocol, ...
    build,          \* per PlateauFilter: how its construction went (history)
    message,        \* a parameter message and the processor it met
    response,       \* a calculateFrequencyResponse call and its result
    roundTrip,      \* a sequence, its fft and the ifft of that
    allPass,        \* a stream rendered with the mask forced to 1
    added,          \* an addFilter({type: 'plateau'}) call and its filter
    bypass,         \* a processor run through bypassed blocks (history)
    ui,             \* UIControls.filters, the generator's list and the timers
    boot,           \* AppEvents.init and AudioContextManager.initialize
    player,         \* NoiseShaperUI: playback state and the worklet's port
    seeded          \* two noise generations and two MulberryRNG instances

dspVars == <<processor, parameters, output, blockInfo, blocks, filter,
             fallbackOutput, fallbackInfo, fallbackBlocks, updates, received>>

maskVars == <<maskCall, masks>>

graphVars == <<links, procKind, suspended, filters, noiseNode, noiseCount,
               isPlaying, pendingStarts, lastCall>>

buildVars == <<host, build>>

callVars == <<message, response, roundTrip, allPass>>

appVars == <<added, bypass, ui, boot, player, seeded>>

vars == <<sampleRate, dspVars, maskVars, graphVars, buildVars, callVars, appVars>>

-----------------------------------------------------------------------------
(* Bounds of the model *)

MaxBlocks == 2
MaxUpdates == 2
MaxFilters == 2
MaxStarts == 2

(* Program and host constants *)

fftSize == 8
BlockSize == 2
ScriptBufferSize == 8

DefaultCenterFreq == 10000
DefaultWidth == 5000
DefaultFlatWidth == 2000
DefaultGain == 0

MinCenterFreq == 20
MaxCenterFreq == 20000
MinWidth == 1
MaxWidth == 10000
MinFlatWidth == 0
MaxFlatWidth == 9999
MinGain == 0
MaxGain == 10

-----------------------------------------------------------------------------
(* Rational arithmetic *)

Abs(n) == IF n < 0 THEN -n ELSE n

RECURSIVE Gcd(_, _)
Gcd(a, b) == IF b = 0 THEN a ELSE Gcd(b, a % b)

Rat(n, d) ==
    LET s == IF d < 0 THEN -1 ELSE 1
        g == Gcd(Abs(n), Abs(d))
    IN  IF n = 0 THEN <<0, 1>> ELSE <<(s * n) \div g, (s * d) \div g>>

R(i) == <<i, 1>>
Half == <<1, 2>>

Lcm(a, b) == (a \div Gcd(a, b)) * b

RAdd(a, b) ==
    LET l == Lcm(a[2], b[2])
    IN  Rat(a[1] * (l \div a[2]) + b[1] * (l \div b[2]), l)

RNeg(a) == <<-a[1], a[2]>>

RSub(a, b) == RAdd(a, RNeg(b))

RMul(a, b) ==
    LET g1 == Gcd(Abs(a[1]), b[2])
        g2 == Gcd(Abs(b[1]), a[2])
    IN  IF a[1] = 0 \/ b[1] = 0 THEN <<0, 1>>
        ELSE <<(a[1] \div g1) * (b[1] \div g2), (a[2] \div g2) * (b[2] \div g1)>>

RDiv(a, b) == RMul(a, IF b[1] < 0 THEN <<-b[2], -b[1]>> ELSE <<b[2], b[1]>>)

RLt(a, b) == a[1] * b[2] < b[1] * a[2]

RLe(a, b) == a[1] * b[2] <= b[1] * a[2]

RAbs(a) == <<Abs(a[1]), a[2]>>

RMax(a, b) == IF RLt(a, b) THEN b ELSE a

RMin(a, b) == IF RLt(b, a) THEN b ELSE a

RFloor(a) == a[1] \div a[2]

\* the value between knots (q0, v0) and (q1, v1)
Lerp(q, q0, q1, v0, v1) ==
    RAdd(v0, RMul(RSub(v1, v0), RDiv(RSub(q, q0), RSub(q1, q0))))

\* Math.cos(pi * q)
CosPi(q) ==
    LET m == RSub(q, R(2 * (RFloor(q) \div 2)))
        r == IF RLt(R(1), m) THEN RSub(R(2), m) ELSE m
    IN  IF RLe(r, <<1, 3>>) THEN Lerp(r, R(0), <<1, 3>>, R(1), Half)
        ELSE IF RLe(r, Half) THEN Lerp(r, <<1, 3>>, Half, Half, R(0))
        ELSE IF RLe(r, <<2, 3>>) THEN Lerp(r, Half, <<2, 3>>, R(0), <<-1, 2>>)
        ELSE Lerp(r, <<2, 3>>, R(1), <<-1, 2>>, R(-1))

\* Math.sin(pi * q)
SinPi(q) == CosPi(RSub(q, Half))

\* the value undefined of a field or of a parameter
Undefined == <<0, 0>>

\* an array materialised (new Array(n), new Float32Array(n))
Force(f) == f @@ <<>>

Length(a) == Cardinality(DOMAIN a)

Zeros(n) == [i \in 0..(n - 1) |-> R(0)]

-----------------------------------------------------------------------------
(* class Complex *)

Complex(re, im) == [real |-> re, imag |-> im]

multiply(a, b) ==
    Complex(RSub(RMul(a.real, b.real), RMul(a.imag, b.imag)),
            RAdd(RMul(a.real, b.imag), RMul(a.imag, b.real)))

add(a, b) == Complex(RAdd(a.real, b.real), RAdd(a.imag, b.imag))

subtract(a, b) == Complex(RSub(a.real, b.real), RSub(a.imag, b.imag))

scale(a, factor) == Complex(RMul(a.real, factor), RMul(a.imag, factor))

\* theta in units of pi
fromPolar(r, theta) == Complex(RMul(r, CosPi(theta)), RMul(r, SinPi(theta)))

-----------------------------------------------------------------------------
(* fft and ifft *)

RECURSIVE fft(_)
fft(x) ==
    LET N == Length(x)
        h == N \div 2
        even == [i \in 0..(h - 1) |-> x[2 * i]]
        odd == [i \in 0..(h - 1) |-> x[2 * i + 1]]
        evenFFT == fft(even)
        oddFFT == fft(odd)
        t == [k \in 0..(h - 1) |->
                multiply(oddFFT[k], fromPolar(R(1), Rat(-2 * k, N)))]
    IN  IF N <= 1 THEN x
        ELSE Force([k \in 0..(N - 1) |->
                IF k < h THEN add(evenFFT[k], t[k])
                ELSE subtract(evenFFT[k - h], t[k - h])])

\* an inverse transform that leaves out the 0.5 of every level
RECURSIVE ifftUnscaled(_)
ifftUnscaled(x) ==
    LET N == Length(x)
        h == N \div 2
        even == [i \in 0..(h - 1) |-> x[2 * i]]
        odd == [i \in 0..(h - 1) |-> x[2 * i + 1]]
        evenIFFT == ifftUnscaled(even)
        oddIFFT == ifftUnscaled(odd)
        t == [k \in 0..(h - 1) |->
                multiply(oddIFFT[k], fromPolar(R(1), Rat(2 * k, N)))]
    IN  IF N <= 1 THEN x
        ELSE Force([k \in 0..(N - 1) |->
                IF k < h THEN add(evenIFFT[k], t[k])
                ELSE subtract(evenIFFT[k - h], t[k - h])])

RECURSIVE ifft(_)
ifft(x) ==
    LET N == Length(x)
        h == N \div 2
        even == [i \in 0..(h - 1) |-> x[2 * i]]
        odd == [i \in 0..(h - 1) |-> x[2 * i + 1]]
        evenIFFT == ifft(even)
        oddIFFT == ifft(odd)
        t == [k \in 0..(h - 1) |->
                multiply(oddIFFT[k], fromPolar(R(1), Rat(2 * k, N)))]
    IN  IF N <= 1 THEN x
        ELSE Force([k \in 0..(N - 1) |->
                IF k < h THEN scale(add(evenIFFT[k], t[k]), Half)
                ELSE scale(subtract(evenIFFT[k - h], t[k - h]), Half)])

-----------------------------------------------------------------------------
(* PlateauProcessor *)

ParamNames == {"centerFreq", "width", "flatWidth", "gain"}

\* static get parameterDescriptors(): the default of each AudioParam
descriptorDefaults ==
    [centerFreq |-> R(DefaultCenterFreq), width |-> R(DefaultWidth),
     flatWidth |-> R(DefaultFlatWidth), gain |-> R(DefaultGain)]

\* static get parameterDescriptors(): the value the host hands to process()
\* lies in the nominal range [minValue, maxValue] of the descriptor
nominal(name, v) ==
    CASE name = "centerFreq" -> RMax(R(MinCenterFreq), RMin(R(MaxCenterFreq), v))
      [] name = "width" -> RMax(R(MinWidth), RMin(R(MaxWidth), v))
      [] name = "flatWidth" -> RMax(R(MinFlatWidth), RMin(R(MaxFlatWidth), v))
      [] name = "gain" -> RMax(R(MinGain), RMin(R(MaxGain), v))

\* this.hanningWindow, precomputed by the constructor
hanning(size) ==
    [i \in 0..(size - 1) |->
        RMul(Half, RSub(R(1), CosPi(Rat(2 * i, size - 1))))]

\* the four filter fields of an object
fieldsOf(o) ==
    [centerFreq |-> o.centerFreq, width |-> o.width,
     flatWidth |-> o.flatWidth, gain |-> o.gain]

\* constructor(options)
newProcessor ==
    [centerFreq |-> R(DefaultCenterFreq), width |-> R(DefaultWidth),
     flatWidth |-> R(DefaultFlatWidth), gain |-> R(DefaultGain),
     overlappedOutput |-> Zeros(fftSize),
     processedOutput |-> Zeros(fftSize),
     hanningWindow |-> Force(hanning(fftSize))]

\* a handler that resets the fields a message does not carry
handleMessageResetting(p, params) ==
    [p EXCEPT
        !.centerFreq = IF params.centerFreq # Undefined THEN params.centerFreq
                       ELSE R(DefaultCenterFreq),
        !.width = IF params.width # Undefined THEN params.width ELSE R(DefaultWidth),
        !.flatWidth = IF params.flatWidth # Undefined THEN params.flatWidth
                      ELSE R(DefaultFlatWidth),
        !.gain = IF params.gain # Undefined THEN params.gain ELSE R(DefaultGain)]

\* handleMessage(event): params = event.data
handleMessage(p, params) ==
    [p EXCEPT
        !.centerFreq = IF params.centerFreq # Undefined THEN params.centerFreq ELSE @,
        !.width = IF params.width # Undefined THEN params.width ELSE @,
        !.flatWidth = IF params.flatWidth # Undefined THEN params.flatWidth ELSE @,
        !.gain = IF params.gain # Undefined THEN params.gain ELSE @]

\* a frequency axis that is not folded at Nyquist
unfoldedFreq(i, rate, size) == Rat(i * rate, size)

\* the folded frequency axis: freqs[i] of createPlateauFilterMask
foldedFreq(i, rate, size) ==
    IF 2 * i <= size THEN Rat(i * rate, size) ELSE Rat((i - size) * rate, size)

\* a mask entry that takes width and flatWidth for the half widths
plateauValueWholeWidths(f, centerFreq, width, flatWidth) ==
    LET absDiff == RAbs(RSub(RAbs(f), centerFreq))
    IN  IF RLt(absDiff, flatWidth) THEN R(1)
        ELSE IF RLt(absDiff, width)
             THEN RMul(Half,
                       RAdd(R(1), CosPi(RDiv(RSub(absDiff, flatWidth),
                                             RSub(width, flatWidth)))))
             ELSE R(0)

\* one entry of the mask: the body of the second loop of createPlateauFilterMask
plateauValue(f, centerFreq, width, flatWidth) ==
    LET freq == RAbs(f)
        absDiff == RAbs(RSub(freq, centerFreq))
        halfFlat == RMul(flatWidth, Half)
        halfWidth == RMul(width, Half)
    IN  IF RLt(absDiff, halfFlat) THEN R(1)
        ELSE IF RLt(absDiff, halfWidth)
             THEN RMul(Half,
                       RAdd(R(1), CosPi(RDiv(RSub(absDiff, halfFlat),
                                             RSub(halfWidth, halfFlat)))))
             ELSE R(0)

\* a mask whose entry 0 is left as the loop computed it
dcKept(mask) == mask

\* mask[0] = 0.0 on an array of the given size
dcRemoved(mask) == [i \in DOMAIN mask |-> IF i = 0 THEN R(0) ELSE mask[i]]

\* createPlateauFilterMask(centerFreq, width, flatWidth, size)
createPlateauFilterMask(centerFreq, width, flatWidth, size) ==
    Force(dcRemoved(
        [i \in 0..(size - 1) |->
            plateauValue(foldedFreq(i, sampleRate, size), centerFreq, width, flatWidth)]))

\* the parameters taken over, the width left as handed in
latchUnclamped(p, params) ==
    [p EXCEPT
        !.centerFreq = IF params.centerFreq # Undefined THEN params.centerFreq ELSE @,
        !.width = IF params.width # Undefined THEN params.width ELSE @,
        !.flatWidth = IF params.flatWidth # Undefined THEN params.flatWidth ELSE @,
        !.gain = IF params.gain # Undefined THEN params.gain ELSE @]

\* process(): the parameters taken over and the width clamp
latchParameters(p, params) ==
    LET q == [p EXCEPT
                !.centerFreq = IF params.centerFreq # Undefined THEN params.centerFreq ELSE @,
                !.width = IF params.width # Undefined THEN params.width ELSE @,
                !.flatWidth = IF params.flatWidth # Undefined THEN params.flatWidth ELSE @,
                !.gain = IF params.gain # Undefined THEN params.gain ELSE @]
    IN  [q EXCEPT !.width = RMax(q.width, RAdd(q.flatWidth, R(1)))]

\* process(): no input or no channel to work on
InputKinds == {"noInputs", "emptyInput", "noInputChannel", "noOutputChannel", "block"}

noAudio(inputs) == inputs.kind # "block"

\* process(): the gain-zero fast path is taken
gainIsZero(p) == p.gain = R(0)

\* process(): inputBuffer and fftInput
windowedInput(p, input) ==
    [i \in 0..(fftSize - 1) |->
        Complex(IF i < Length(input) THEN RMul(input[i], p.hanningWindow[i]) ELSE R(0),
                R(0))]

\* process(): the spectrum scaled by filterMask[i] * this.gain
maskedSpectrum(p, fftOutput) ==
    LET filterMask == createPlateauFilterMask(p.centerFreq, p.width, p.flatWidth, fftSize)
    IN  [i \in 0..(fftSize - 1) |-> scale(fftOutput[i], RMul(filterMask[i], p.gain))]

\* process(): this.processedOutput of the block
processedFrame(p, input) ==
    LET fftOutput == fft(Force(windowedInput(p, input)))
        ifftOutput == ifft(Force(maskedSpectrum(p, fftOutput)))
    IN  Force([i \in 0..(fftSize - 1) |-> RMul(ifftOutput[i].real, p.hanningWindow[i])])

\* process(): the overlap-add loop over the output block
overlapSum(processed, overlapped, len) ==
    Force([i \in 0..(len - 1) |-> RAdd(processed[i], overlapped[i])])

overlapKept(processed, overlapped, len) ==
    Force([i \in DOMAIN overlapped |->
        IF i < len
        THEN IF i + len < fftSize THEN processed[i + len] ELSE R(0)
        ELSE overlapped[i]])

\* an early return that also clears the overlap buffer
silentClearing(q, inputs) ==
    [processor |-> [q EXCEPT !.overlappedOutput = Zeros(fftSize)],
     output |-> Zeros(BlockSize),
     fft |-> 0, ifft |-> 0, mask |-> 0, kind |-> inputs.kind, alive |-> TRUE]

\* a fast path that still plays the overlap kept by the previous block
bypassPlayingOverlap(q, len) ==
    [processor |-> q, output |-> [i \in 0..(len - 1) |-> q.overlappedOutput[i]],
     fft |-> 0, ifft |-> 0, mask |-> 0, kind |-> "bypass", alive |-> TRUE]

\* process(): the early returns; q holds the fields after the parameters
\* were taken over.  The host hands in a zero-filled output block
silentBlock(q, inputs) ==
    [processor |-> q,
     output |-> IF inputs.kind = "noOutputChannel" THEN <<>> @@ <<>>
                ELSE Zeros(BlockSize),
     fft |-> 0, ifft |-> 0, mask |-> 0, kind |-> inputs.kind, alive |-> TRUE]

\* a fast path that also clears the overlap buffer
bypassClearing(q, len) ==
    [processor |-> [q EXCEPT !.overlappedOutput = Zeros(fftSize)],
     output |-> Zeros(len),
     fft |-> 0, ifft |-> 0, mask |-> 0, kind |-> "bypass", alive |-> TRUE]

\* process(): the gain-zero fast path
bypassBlock(q, len) ==
    [processor |-> q, output |-> Zeros(len),
     fft |-> 0, ifft |-> 0, mask |-> 0, kind |-> "bypass", alive |-> TRUE]

\* process(): the overlap-add of a processed frame
fullBlock(q, processed, len) ==
    [processor |->
        [q EXCEPT !.processedOutput = processed,
                  !.overlappedOutput = overlapKept(processed, q.overlappedOutput, len)],
     output |-> overlapSum(processed, q.overlappedOutput, len),
     fft |-> 1, ifft |-> 1, mask |-> 1, kind |-> "full", alive |-> TRUE]

\* process(): the body after the parameters were taken over
processLatched(q, inputs) ==
    IF noAudio(inputs) THEN silentBlock(q, inputs)
    ELSE IF gainIsZero(q) THEN bypassBlock(q, Length(inputs.data))
    ELSE fullBlock(q, processedFrame(q, inputs.data), Length(inputs.data))

\* process(inputs, outputs, parameters): the fields, the output block and the
\* calls made
process(p, inputs, params) == processLatched(latchParameters(p, params), inputs)

-----------------------------------------------------------------------------
(* PlateauFilter *)

\* constructor(context); processor is "undefined" while the worklet module
\* loads, "worklet" for an AudioWorkletNode, "script" for a ScriptProcessorNode
newFilter(kind) ==
    [centerFreq |-> R(DefaultCenterFreq), width |-> R(DefaultWidth),
     flatWidth |-> R(DefaultFlatWidth), gain |-> R(DefaultGain),
     processor |-> kind]

\* an update that never reaches the node
updateParametersDropped(f, params) == params

\* _updateParameters(): the AudioParam values after the call.  Only an
\* AudioWorkletNode has .parameters; a ScriptProcessorNode has neither
\* .parameters nor .port, so nothing is sent
updateParameters(f, params) ==
    IF f.processor = "undefined" THEN params
    ELSE IF f.processor = "worklet" THEN fieldsOf(f)
    ELSE params

setCenterFreq(f, value) == [f EXCEPT !.centerFreq = value]

setWidth(f, value) ==
    LET newWidth == RMax(value, RAdd(f.flatWidth, R(1)))
    IN  IF newWidth # f.width THEN [f EXCEPT !.width = newWidth] ELSE f

\* a flat width setter that corrects the width instead
setFlatWidthRaisingWidth(f, value) ==
    IF RLe(f.width, value)
    THEN [f EXCEPT !.flatWidth = value, !.width = RAdd(value, R(1))]
    ELSE [f EXCEPT !.flatWidth = value]

\* a flat width setter that lets the flat width reach the width
setFlatWidthUpToWidth(f, value) ==
    LET newFlatWidth == RMin(value, f.width)
    IN  IF newFlatWidth # f.flatWidth THEN [f EXCEPT !.flatWidth = newFlatWidth] ELSE f

setFlatWidth(f, value) ==
    LET newFlatWidth == RMin(value, RSub(f.width, R(1)))
    IN  IF newFlatWidth # f.flatWidth THEN [f EXCEPT !.flatWidth = newFlatWidth] ELSE f

setGain(f, value) == IF f.gain # value THEN [f EXCEPT !.gain = value] ELSE f

\* _applyWindow(buffer)
applyWindow(buffer) ==
    LET size == Length(buffer)
    IN  [i \in 0..(size - 1) |->
            RMul(buffer[i], RMul(Half, RSub(R(1), CosPi(Rat(2 * i, size - 1)))))]

\* _calculateFFT(buffer)
calculateFFT(buffer) == buffer

\* _calculateIFFT(spectrum)
calculateIFFT(spectrum) == spectrum

\* _calculateMask(freq)
calculateMask(f, freq) ==
    LET freqDiff == RAbs(RSub(freq, f.centerFreq))
        flatHalfWidth == RMul(f.flatWidth, Half)
        totalHalfWidth == RMul(f.width, Half)
    IN  IF RLt(freqDiff, flatHalfWidth) THEN R(1)
        ELSE IF RLe(freqDiff, totalHalfWidth)
             THEN RMul(Half,
                       RAdd(R(1), CosPi(RDiv(RSub(freqDiff, flatHalfWidth),
                                             RSub(totalHalfWidth, flatHalfWidth)))))
             ELSE R(0)

\* _applyFilter(spectrum); this.context.sampleRate is the rate of the worklet
applyFilter(f, spectrum) ==
    LET nyquist == Rat(sampleRate, 2)
        binCount == Length(spectrum)
    IN  [i \in 0..(binCount - 1) |->
            RMul(spectrum[i], calculateMask(f, RDiv(RMul(R(i), nyquist), R(binCount))))]

\* _processAudio(event): outputData
processAudio(f, inputData) ==
    LET bufferSize == Length(inputData)
        tempBuffer == Force(applyWindow(inputData))
        spectrum == Force(applyFilter(f, calculateFFT(tempBuffer)))
        result == calculateIFFT(spectrum)
    IN  Force([i \in 0..(bufferSize - 1) |-> RMul(result[i], f.gain)])

-----------------------------------------------------------------------------
(* Inputs drawn by the environment *)

\* the render quanta the host delivers: silence and a constant signal
Blocks == {Zeros(BlockSize), [i \in 0..(BlockSize - 1) |-> R(1)]}

\* the buffers the ScriptProcessorNode is fired with: silence, a constant
\* signal and an impulse
ScriptBuffers ==
    {Zeros(ScriptBufferSize),
     [i \in 0..(ScriptBufferSize - 1) |-> R(1)],
     [i \in 0..(ScriptBufferSize - 1) |-> IF i = 1 THEN R(1) ELSE R(0)]}

Inputs ==
    {[kind |-> k, data |-> <<>> @@ <<>>] : k \in InputKinds \ {"block"}}
        \cup {[kind |-> "block", data |-> b] : b \in Blocks}

CenterFreqValues == {R(6000)}
WidthValues == {R(1000), R(8000)}
FlatWidthValues == {R(0), R(6000)}
GainValues == {R(0), R(1)}

\* the writes another holder of the node makes to its AudioParams
AudioParamWrites == {<<"width", R(1000)>>, <<"flatWidth", R(6000)>>}

\* the sparse records a parameter message carries
Messages ==
    {[centerFreq |-> Undefined, width |-> R(1000), flatWidth |-> R(6000),
      gain |-> Undefined],
     [centerFreq |-> R(6000), width |-> R(8000), flatWidth |-> R(0),
      gain |-> R(1)]}

-----------------------------------------------------------------------------
(* The plateau filter and its processor as a state machine *)

noBlock ==
    [kind |-> "none", input |-> <<>> @@ <<>>, atStart |-> descriptorDefaults,
     handed |-> descriptorDefaults, used |-> descriptorDefaults,
     overlapBefore |-> Zeros(fftSize), fft |-> 0, ifft |-> 0, mask |-> 0,
     received |-> 0, alive |-> TRUE]

noFallbackBlock == [input |-> <<>> @@ <<>>, used |-> descriptorDefaults]

InitDsp ==
    /\ sampleRate = 48000
    /\ processor = newProcessor
    /\ parameters = descriptorDefaults
    /\ output = Zeros(BlockSize)
    /\ blockInfo = noBlock
    /\ blocks = 0
    /\ filter \in {newFilter("undefined"), newFilter("script")}
    /\ fallbackOutput = Zeros(ScriptBufferSize)
    /\ fallbackInfo = noFallbackBlock
    /\ fallbackBlocks = 0
    /\ updates = 0
    /\ received = 0

\* _createWorkletProcessor() resumes after addModule: the node exists and
\* _updateParameters() runs
WorkletCreated ==
    /\ filter.processor = "undefined"
    /\ filter' = [filter EXCEPT !.processor = "worklet"]
    /\ parameters' = updateParameters(filter', parameters)
    /\ UNCHANGED <<processor, output, blockInfo, blocks, fallbackOutput,
                   fallbackInfo, fallbackBlocks, updates, received>>
    /\ UNCHANGED <<sampleRate, maskVars, graphVars, buildVars, callVars, appVars>>

\* _createWorkletProcessor() catches a failure: _setupFallbackProcessor()
WorkletFailed ==
    /\ filter.processor = "undefined"
    /\ filter' = [filter EXCEPT !.processor = "script"]
    /\ UNCHANGED <<processor, parameters, output, blockInfo, blocks,
                   fallbackOutput, fallbackInfo, fallbackBlocks, updates, received>>
    /\ UNCHANGED <<sampleRate, maskVars, graphVars, buildVars, callVars, appVars>>

\* setCenterFreq(value): _updateParameters() runs unconditionally
SetCenterFreqTo(value) ==
    /\ updates < MaxUpdates
    /\ updates' = updates + 1
    /\ filter' = setCenterFreq(filter, value)
    /\ parameters' = updateParameters(filter', parameters)
    /\ UNCHANGED <<processor, output, blockInfo, blocks, fallbackOutput,
                   fallbackInfo, fallbackBlocks, received>>
    /\ UNCHANGED <<sampleRate, maskVars, graphVars, buildVars, callVars, appVars>>

SetCenterFreq == \E value \in CenterFreqValues : SetCenterFreqTo(value)

\* setWidth(value): _updateParameters() runs when the field changed
SetWidthTo(value) ==
    /\ updates < MaxUpdates
    /\ updates' = updates + 1
    /\ filter' = setWidth(filter, value)
    /\ parameters' = IF filter' # filter THEN updateParameters(filter', parameters)
                     ELSE parameters
    /\ UNCHANGED <<processor, output, blockInfo, blocks, fallbackOutput,
                   fallbackInfo, fallbackBlocks, received>>
    /\ UNCHANGED <<sampleRate, maskVars, graphVars, buildVars, callVars, appVars>>

SetWidth == \E value \in WidthValues : SetWidthTo(value)

\* setFlatWidth(value): _updateParameters() runs when the field changed
SetFlatWidthTo(value) ==
    /\ updates < MaxUpdates
    /\ updates' = updates + 1
    /\ filter' = setFlatWidth(filter, value)
    /\ parameters' = IF filter' # filter THEN updateParameters(filter', parameters)
                     ELSE parameters
    /\ UNCHANGED <<processor, output, blockInfo, blocks, fallbackOutput,
                   fallbackInfo, fallbackBlocks, received>>
    /\ UNCHANGED <<sampleRate, maskVars, graphVars, buildVars, callVars, appVars>>

SetFlatWidth == \E value \in FlatWidthValues : SetFlatWidthTo(value)

\* setGain(value): _updateParameters() runs when the field changed
SetGainTo(value) ==
    /\ updates < MaxUpdates
    /\ updates' = updates + 1
    /\ filter' = setGain(filter, value)
    /\ parameters' = IF filter' # filter THEN updateParameters(filter', parameters)
                     ELSE parameters
    /\ UNCHANGED <<processor, output, blockInfo, blocks, fallbackOutput,
                   fallbackInfo, fallbackBlocks, received>>
    /\ UNCHANGED <<sampleRate, maskVars, graphVars, buildVars, callVars, appVars>>

SetGain == \E value \in GainValues : SetGainTo(value)

\* any holder of the node sets one of its AudioParams
SetAudioParam ==
    \E w \in AudioParamWrites :
        /\ filter.processor = "worklet"
        /\ updates < MaxUpdates
        /\ updates' = updates + 1
        /\ parameters' = [parameters EXCEPT ![w[1]] = w[2]]
        /\ UNCHANGED <<processor, output, blockInfo, blocks, filter,
                       fallbackOutput, fallbackInfo, fallbackBlocks, received>>
        /\ UNCHANGED <<sampleRate, maskVars, graphVars, buildVars, callVars, appVars>>

\* a message arrives on the processor's port
HandleMessage ==
    \E msg \in Messages :
        /\ filter.processor = "worklet"
        /\ updates < MaxUpdates
        /\ updates' = updates + 1
        /\ processor' = handleMessage(processor, msg)
        /\ received' = received + 1
        /\ UNCHANGED <<parameters, output, blockInfo, blocks, filter,
                       fallbackOutput, fallbackInfo, fallbackBlocks>>
        /\ UNCHANGED <<sampleRate, maskVars, graphVars, buildVars, callVars, appVars>>

\* the values the host hands to process() for the block
handedParameters == [name \in ParamNames |-> nominal(name, parameters[name])]

\* the state after a process() call that returned res
ProcessReturns(inputs, handed, res) ==
    /\ processor' = res.processor
    /\ output' = res.output
    /\ blockInfo' =
         [kind |-> res.kind, input |-> inputs.data,
          atStart |-> fieldsOf(processor), handed |-> handed,
          used |-> fieldsOf(res.processor),
          overlapBefore |-> processor.overlappedOutput,
          fft |-> res.fft, ifft |-> res.ifft, mask |-> res.mask,
          received |-> received, alive |-> res.alive]

\* the host calls process() for one render quantum
Process ==
    \E inputs \in Inputs :
        /\ filter.processor = "worklet"
        /\ blocks < MaxBlocks
        /\ blocks' = blocks + 1
        /\ ProcessReturns(inputs, handedParameters,
                          process(processor, inputs, handedParameters))
        /\ received' = 0
        /\ UNCHANGED <<parameters, filter, fallbackOutput, fallbackInfo,
                       fallbackBlocks, updates>>
        /\ UNCHANGED <<sampleRate, maskVars, graphVars, buildVars, callVars, appVars>>

\* the ScriptProcessorNode fires onaudioprocess
AudioProcess ==
    \E inputData \in ScriptBuffers :
        /\ filter.processor = "script"
        /\ fallbackBlocks < MaxBlocks
        /\ fallbackBlocks' = fallbackBlocks + 1
        /\ fallbackOutput' = processAudio(filter, inputData)
        /\ fallbackInfo' = [input |-> inputData, used |-> fieldsOf(filter)]
        /\ UNCHANGED <<processor, parameters, output, blockInfo, blocks, filter,
                       updates, received>>
        /\ UNCHANGED <<sampleRate, maskVars, graphVars, buildVars, callVars, appVars>>

NextDsp ==
    \/ WorkletCreated
    \/ WorkletFailed
    \/ SetCenterFreq
    \/ SetWidth
    \/ SetFlatWidth
    \/ SetGain
    \/ SetAudioParam
    \/ HandleMessage
    \/ Process
    \/ AudioProcess

-----------------------------------------------------------------------------
(* The mask helpers of ftt.js *)

\* Math.round(x)
Round(x) == RFloor(RAdd(x, Half))

\* a frequency array that counts on above Nyquist
unfoldedFrequencyArray(n, rate) ==
    Force([i \in 0..(n - 1) |-> RMul(R(i), Rat(rate, n))])

\* createFrequencyArray(n, sampleRate)
createFrequencyArray(n, rate) ==
    LET df == Rat(rate, n)
    IN  Force([i \in 0..(n - 1) |->
            IF i <= n \div 2 THEN RMul(R(i), df) ELSE RMul(R(i - n), df)])

\* one entry of the mask: the body of the loop of createPlateauFilterMask
fttPlateauValue(f, targetFreq, width, delta) ==
    LET freq == RAbs(f)
        absDiff == RAbs(RSub(freq, targetFreq))
    IN  IF RLt(absDiff, delta) THEN R(1)
        ELSE IF RLt(absDiff, width)
             THEN RMul(Half,
                       RAdd(R(1), CosPi(RDiv(RSub(absDiff, delta), RSub(width, delta)))))
             ELSE R(0)

\* createPlateauFilterMask: the bins whose response the debug output prints
\* with mask[bin].toFixed(3).  freqStep is NaN for fewer than two bins, and
\* so is every bin computed from it
fttDebugBins(frequencies, targetFreq) ==
    LET n == Length(frequencies)
        freqStep == RSub(frequencies[1], frequencies[0])
    IN  IF n < 2 THEN {-1}
        ELSE {Round(RDiv(R(5000), freqStep)), Round(RDiv(targetFreq, freqStep)),
              Round(RDiv(R(15000), freqStep)), n \div 2}

\* createPlateauFilterMask(frequencies, targetFreq, width, delta) of ftt.js:
\* mask[bin] is undefined for a bin outside the mask, and .toFixed on it
\* throws a TypeError before the mask is returned
fttCreatePlateauFilterMask(frequencies, targetFreq, width, delta) ==
    LET n == Length(frequencies)
        mask == Force(dcRemoved(
                    [i \in 0..(n - 1) |->
                        fttPlateauValue(frequencies[i], targetFreq, width, delta)]))
    IN  IF fttDebugBins(frequencies, targetFreq) \subseteq 0..(n - 1)
        THEN [threw |-> FALSE, mask |-> mask]
        ELSE [threw |-> TRUE, mask |-> <<>> @@ <<>>]

-----------------------------------------------------------------------------
(* The mask generators called on their own *)

SampleRates == {8000, 44100, 48000}
MaskSizes == {1, 2, 4, 8}
MaskCenterFreqs == {R(1000), R(6000), R(10000)}
MaskWidths == {R(200), R(5000), R(8000), R(12000)}
MaskFlatWidths == {R(0), R(100), R(2000), R(8000)}

\* the default parameters at the frame size of the source: fftSize = 2048
BoundaryCall ==
    [centerFreq |-> R(DefaultCenterFreq), width |-> R(DefaultWidth),
     flatWidth |-> R(DefaultFlatWidth), size |-> 2048]

\* the calls made: every combination, width <= flatWidth included, and the
\* defaults at full size
MaskCalls ==
    [centerFreq : MaskCenterFreqs, width : MaskWidths, flatWidth : MaskFlatWidths,
     size : MaskSizes]
        \cup {BoundaryCall}

noMaskCall ==
    [centerFreq |-> R(0), width |-> R(0), flatWidth |-> R(0), size |-> 0]

noMasks ==
    [processor |-> <<>> @@ <<>>, ftt |-> [threw |-> FALSE, mask |-> <<>> @@ <<>>],
     called |-> FALSE]

InitMask ==
    /\ maskCall = noMaskCall
    /\ masks = noMasks

\* both generators are called with the same centre, width, flat width and size
CreateMask ==
    /\ maskCall # noMaskCall
    /\ ~masks.called
    /\ masks' =
         [processor |-> createPlateauFilterMask(maskCall.centerFreq, maskCall.width,
                                                maskCall.flatWidth, maskCall.size),
          ftt |-> fttCreatePlateauFilterMask(
                      createFrequencyArray(maskCall.size, sampleRate),
                      maskCall.centerFreq, maskCall.width, maskCall.flatWidth),
          called |-> TRUE]
    /\ UNCHANGED <<maskCall, sampleRate, dspVars, graphVars, buildVars, callVars, appVars>>

NextMask == CreateMask

-----------------------------------------------------------------------------
(* The audio graph: PlateauFilter nodes and WhiteNoiseGenerator *)

FilterIds == 1..MaxFilters

inputNode(f) == <<"inputNode", f>>
analyser(f) == <<"analyser", f>>
processorNode(f) == <<"processor", f>>
outputNode(f) == <<"outputNode", f>>
noise(k) == <<"noiseNode", k>>
gainNode == <<"gainNode", 0>>
analyserNode == <<"analyserNode", 0>>
destination == <<"destination", 0>>

\* AudioNode.disconnect(): every outgoing connection of the node goes
disconnectNode(L, n) == {l \in L : l[1] # n}

\* the connections made once this.processor exists, in _createWorkletProcessor
\* and in _setupFallbackProcessor
wireProcessor(L, f) ==
    disconnectNode(L, inputNode(f))
        \cup {<<inputNode(f), analyser(f)>>, <<analyser(f), processorNode(f)>>,
              <<processorNode(f), outputNode(f)>>}

\* new PlateauFilter(context): kind "script" when _createWorkletProcessor
\* falls back at once, "undefined" while it awaits addModule
constructFilter(L, f, kind) ==
    (IF kind = "script" THEN wireProcessor(L, f) ELSE L)
        \cup {<<inputNode(f), analyser(f)>>}

\* PlateauFilter.disconnect()
disconnectFilter(L, f) ==
    {l \in L : l[1] \notin {inputNode(f), analyser(f), processorNode(f), outputNode(f)}}

\* filter ids of a list
Members(F) == {F[i] : i \in 1..Len(F)}

\* _rebuildFilterChain(): every node disconnected
chainCleared(L, F, node) ==
    {l \in (IF node # 0 THEN disconnectNode(L, noise(node)) ELSE L) :
        \A f \in Members(F) :
            l[1] \notin {inputNode(f), analyser(f), processorNode(f), outputNode(f)}}

\* _rebuildFilterChain(): the connections made afterwards
chainLinks(F, node) ==
    IF node = 0 THEN {}
    ELSE IF Len(F) = 0 THEN {<<noise(node), gainNode>>}
    ELSE {<<noise(node), inputNode(F[1])>>}
            \cup {<<outputNode(F[i]), inputNode(F[i + 1])>> : i \in 1..(Len(F) - 1)}
            \cup {<<outputNode(F[Len(F)]), gainNode>>}

\* _rebuildFilterChain()
rebuildFilterChain(L, F, node) == chainCleared(L, F, node) \cup chainLinks(F, node)

\* this.filters.splice(index, 1)
splice(F, index) == [i \in 1..(Len(F) - 1) |-> IF i < index THEN F[i] ELSE F[i + 1]]

\* constructor and _initializeNodes of WhiteNoiseGenerator
InitGraph ==
    /\ links = {<<gainNode, analyserNode>>, <<analyserNode, destination>>}
    /\ procKind = [f \in FilterIds |-> "none"]
    /\ suspended = {}
    /\ filters = <<>>
    /\ noiseNode = 0
    /\ noiseCount = 0
    /\ isPlaying = FALSE
    /\ pendingStarts = 0
    /\ lastCall = "none"

\* addFilter({type: 'plateau', ...}): the filter is constructed and
\* _addFilterToChain rebuilds the chain
AddFilter ==
    \E kind \in {"undefined", "script"} :
        LET f == Cardinality({g \in FilterIds : procKind[g] # "none"}) + 1
        IN  /\ f \in FilterIds
            /\ procKind' = [procKind EXCEPT ![f] = kind]
            /\ filters' = Append(filters, f)
            /\ links' = rebuildFilterChain(constructFilter(links, f, kind),
                                           filters', noiseNode)
            /\ suspended' = suspended \cup Members(filters')
            /\ UNCHANGED <<noiseNode, noiseCount, isPlaying, pendingStarts, lastCall>>
            /\ UNCHANGED <<sampleRate, dspVars, maskVars, buildVars, callVars, appVars>>

\* _createWorkletProcessor() of a filter resumes after addModule
ProcessorCreated ==
    \E f \in FilterIds :
        /\ procKind[f] = "undefined"
        /\ procKind' = [procKind EXCEPT ![f] = "worklet"]
        /\ links' = wireProcessor(links, f)
        /\ UNCHANGED <<suspended, filters, noiseNode, noiseCount, isPlaying,
                       pendingStarts, lastCall>>
        /\ UNCHANGED <<sampleRate, dspVars, maskVars, buildVars, callVars, appVars>>

\* _createWorkletProcessor() of a filter catches a failure
ProcessorFallback ==
    \E f \in FilterIds :
        /\ procKind[f] = "undefined"
        /\ procKind' = [procKind EXCEPT ![f] = "script"]
        /\ links' = wireProcessor(links, f)
        /\ UNCHANGED <<suspended, filters, noiseNode, noiseCount, isPlaying,
                       pendingStarts, lastCall>>
        /\ UNCHANGED <<sampleRate, dspVars, maskVars, buildVars, callVars, appVars>>

\* removeFilter(index)
RemoveFilter ==
    \E index \in 1..Len(filters) :
        /\ filters' = splice(filters, index)
        /\ links' = rebuildFilterChain(disconnectFilter(links, filters[index]),
                                       filters', noiseNode)
        /\ suspended' = suspended \cup Members(filters)
        /\ UNCHANGED <<procKind, noiseNode, noiseCount, isPlaying, pendingStarts, lastCall>>
        /\ UNCHANGED <<sampleRate, dspVars, maskVars, buildVars, callVars, appVars>>

\* start(): nothing when playing, otherwise up to the await in
\* _createNoiseNode(), where the old noise node is disconnected
StartCall ==
    /\ lastCall' = "start"
    /\ IF isPlaying
       THEN UNCHANGED <<links, pendingStarts>>
       ELSE /\ noiseCount + pendingStarts < MaxStarts
            /\ links' = IF noiseNode # 0
                           THEN disconnectNode(links, noise(noiseNode))
                           ELSE links
            /\ pendingStarts' = pendingStarts + 1
    /\ UNCHANGED <<procKind, suspended, filters, noiseNode, noiseCount, isPlaying>>
    /\ UNCHANGED <<sampleRate, dspVars, maskVars, buildVars, callVars, appVars>>

\* start() resumes: the new noise node is connected to gainNode
StartResume ==
    /\ pendingStarts > 0
    /\ pendingStarts' = pendingStarts - 1
    /\ noiseCount' = noiseCount + 1
    /\ noiseNode' = noiseCount'
    /\ links' = links \cup {<<noise(noiseNode'), gainNode>>}
    /\ isPlaying' = TRUE
    /\ UNCHANGED <<procKind, suspended, filters, lastCall>>
    /\ UNCHANGED <<sampleRate, dspVars, maskVars, buildVars, callVars, appVars>>

\* stop(): nothing when not playing
Stop ==
    /\ lastCall' = "stop"
    /\ IF isPlaying
       THEN /\ links' = IF noiseNode # 0
                           THEN disconnectNode(links, noise(noiseNode))
                           ELSE links
            /\ noiseNode' = 0
            /\ isPlaying' = FALSE
       ELSE UNCHANGED <<links, noiseNode, isPlaying>>
    /\ UNCHANGED <<procKind, suspended, filters, noiseCount, pendingStarts>>
    /\ UNCHANGED <<sampleRate, dspVars, maskVars, buildVars, callVars, appVars>>

NextGraph ==
    \/ AddFilter
    \/ ProcessorCreated
    \/ ProcessorFallback
    \/ RemoveFilter
    \/ StartCall
    \/ StartResume
    \/ Stop

-----------------------------------------------------------------------------
(* The construction of a PlateauFilter *)

Protocols == {"http:", "https:", "file:"}

\* what the page offers to new PlateauFilter(context): context.audioWorklet,
\* window.location.protocol, and whether audioWorklet.addModule, new
\* AudioWorkletNode and context.createScriptProcessor succeed
Hosts ==
    [audioWorklet : BOOLEAN, protocol : Protocols,
     addModule : {"resolves", "rejects"}, workletNode : {"constructs", "throws"},
     scriptProcessor : {"creates", "throws"}]

\* a page served over https by a browser that has everything
browserHost ==
    [audioWorklet |-> TRUE, protocol |-> "https:", addModule |-> "resolves",
     workletNode |-> "constructs", scriptProcessor |-> "creates"]

\* _createWorkletProcessor(): why the worklet is given up before the await
syncCause(h) ==
    IF ~h.audioWorklet THEN "audioWorklet"
    ELSE IF h.protocol \notin {"http:", "https:"} THEN "protocol"
    ELSE "none"

\* _createWorkletProcessor(): why the worklet is given up after the await
asyncCause(h) ==
    IF h.addModule = "rejects" THEN "addModule"
    ELSE IF h.workletNode = "throws" THEN "workletNode"
    ELSE "none"

\* a fallback that installs the processor and its callback and connects nothing
setupFallbackUnwired(h, st, f) ==
    IF h.scriptProcessor = "throws" THEN [st EXCEPT !.threw = TRUE]
    ELSE [st EXCEPT !.processor = "script", !.onaudioprocess = TRUE, !.threw = FALSE]

\* _setupFallbackProcessor(): createScriptProcessor throws before anything is
\* assigned or connected
setupFallbackProcessor(h, st, f) ==
    IF h.scriptProcessor = "throws" THEN [st EXCEPT !.threw = TRUE]
    ELSE [st EXCEPT !.processor = "script", !.onaudioprocess = TRUE,
                    !.links = wireProcessor(st.links, f), !.threw = FALSE]

\* the catch block of _createWorkletProcessor(): console.error, then
\* _setupFallbackProcessor(); what that throws rejects the promise
catchError(h, st, f) ==
    LET r == setupFallbackProcessor(h, [st EXCEPT !.errors = @ + 1, !.threw = FALSE], f)
    IN  [r EXCEPT !.rejected = r.threw]

\* the fields of a filter whose constructor has just created its nodes
underConstruction(L) ==
    [processor |-> "undefined", onaudioprocess |-> FALSE, links |-> L,
     threw |-> FALSE, errors |-> 0, rejected |-> FALSE, awaiting |-> FALSE]

\* the direct call of _setupFallbackProcessor() inside the try block
fallbackInTry(h, st, f) ==
    LET direct == setupFallbackProcessor(h, st, f)
    IN  IF direct.threw THEN catchError(h, direct, f) ELSE direct

\* _createWorkletProcessor() up to its await
createWorkletProcessor(h, L, f) ==
    IF syncCause(h) # "none" THEN fallbackInTry(h, underConstruction(L), f)
    ELSE [underConstruction(L) EXCEPT !.awaiting = TRUE]

\* _createWorkletProcessor() from its await on
resumeWorkletProcessor(h, st, f) ==
    IF asyncCause(h) # "none" THEN catchError(h, st, f)
    ELSE [st EXCEPT !.processor = "worklet", !.links = wireProcessor(st.links, f)]

\* thrown: an async function hands every error to its promise, and the
\* constructor drops the promise, so nothing is ever thrown to the caller
noBuild ==
    [phase |-> "none", cause |-> "none", onaudioprocess |-> FALSE, errors |-> 0,
     rejected |-> FALSE, thrown |-> FALSE]

InitBuild ==
    /\ host = browserHost
    /\ build = [f \in FilterIds |-> noBuild]

\* new PlateauFilter(context): the nodes, _createWorkletProcessor() up to its
\* await, then inputNode.connect(analyser)
Construct ==
    \E f \in FilterIds :
        LET r == createWorkletProcessor(host, links, f)
        IN  /\ build[f].phase = "none"
            /\ \A g \in FilterIds : g < f => build[g].phase # "none"
            /\ procKind' = [procKind EXCEPT ![f] = r.processor]
            /\ links' = r.links \cup {<<inputNode(f), analyser(f)>>}
            /\ build' = [build EXCEPT ![f] =
                            [phase |-> IF r.awaiting THEN "awaiting" ELSE "settled",
                             cause |-> syncCause(host),
                             onaudioprocess |-> r.onaudioprocess,
                             errors |-> r.errors, rejected |-> r.rejected,
                             thrown |-> FALSE]]
            /\ UNCHANGED <<host, suspended, filters, noiseNode, noiseCount,
                           isPlaying, pendingStarts, lastCall>>
            /\ UNCHANGED <<sampleRate, dspVars, maskVars, callVars, appVars>>

\* the promise of addModule settles and _createWorkletProcessor() goes on
Resume ==
    \E f \in FilterIds :
        LET r == resumeWorkletProcessor(
                     host,
                     [underConstruction(links) EXCEPT
                         !.processor = procKind[f],
                         !.onaudioprocess = build[f].onaudioprocess],
                     f)
        IN  /\ build[f].phase = "awaiting"
            /\ procKind' = [procKind EXCEPT ![f] = r.processor]
            /\ links' = r.links
            /\ build' = [build EXCEPT ![f] =
                            [phase |-> "settled", cause |-> asyncCause(host),
                             onaudioprocess |-> r.onaudioprocess,
                             errors |-> r.errors, rejected |-> r.rejected,
                             thrown |-> FALSE]]
            /\ UNCHANGED <<host, suspended, filters, noiseNode, noiseCount,
                           isPlaying, pendingStarts, lastCall>>
            /\ UNCHANGED <<sampleRate, dspVars, maskVars, callVars, appVars>>

NextBuild ==
    \/ Construct
    \/ Resume


-----------------------------------------------------------------------------
(* handleMessage called on its own *)

\* the records a message can carry: every subset of the four fields, a field
\* that is present carrying one of two values
MessageData ==
    [centerFreq : {Undefined, R(1000), R(6000)},
     width : {Undefined, R(200), R(8000)},
     flatWidth : {Undefined, R(100), R(9000)},
     gain : {Undefined, R(0), R(1)}]

\* the processor a message can meet: as constructed, and after a block of
\* ones was processed in full
processedOnce ==
    process(newProcessor,
            [kind |-> "block", data |-> [i \in 0..(BlockSize - 1) |-> R(1)]],
            [centerFreq |-> R(6000), width |-> R(8000), flatWidth |-> R(0),
             gain |-> R(1)]).processor

noMessage ==
    [data |-> [name \in ParamNames |-> Undefined], before |-> newProcessor,
     handled |-> FALSE]

\* this.port.onmessage fires with the message
DeliverMessage ==
    /\ ~message.handled
    /\ processor' = handleMessage(processor, message.data)
    /\ message' = [message EXCEPT !.before = processor, !.handled = TRUE]
    /\ UNCHANGED <<parameters, output, blockInfo, blocks, filter, fallbackOutput,
                   fallbackInfo, fallbackBlocks, updates, received>>
    /\ UNCHANGED <<response, roundTrip, allPass>>
    /\ UNCHANGED <<sampleRate, maskVars, graphVars, buildVars, appVars>>

NextMessage == DeliverMessage


-----------------------------------------------------------------------------
(* calculateFrequencyResponse called on its own *)

MaxPoints == 4

\* the numbers that are not rationals: Infinity, -Infinity and NaN
Infinity == <<1, 0>>
NaN == <<0, -1>>
NonFinite == {Infinity, RNeg(Infinity), NaN}

\* a / b where b may be 0
Quotient(a, b) ==
    IF b[1] # 0 THEN RDiv(a, b)
    ELSE IF a[1] > 0 THEN Infinity
    ELSE IF a[1] < 0 THEN RNeg(Infinity)
    ELSE NaN

\* i * a for an index i >= 0: 0 * Infinity is NaN
Times(i, a) ==
    IF a \notin NonFinite THEN RMul(R(i), a)
    ELSE IF i = 0 THEN NaN
    ELSE a

\* a + b for a rational a
Plus(a, b) == IF b \in NonFinite THEN b ELSE RAdd(a, b)

\* _calculateMask(freq): every comparison with NaN is false, and an infinite
\* freqDiff passes neither comparison
calculateMaskAt(f, freq) ==
    IF freq \in NonFinite THEN R(0) ELSE calculateMask(f, freq)

\* calculateFrequencyResponse(minFreq, maxFreq, numPoints)
calculateFrequencyResponse(f, minFreq, maxFreq, numPoints) ==
    LET step == Quotient(RSub(maxFreq, minFreq), R(numPoints - 1))
        freq == [i \in 0..(numPoints - 1) |-> Plus(minFreq, Times(i, step))]
    IN  [frequencies |-> Force(freq),
         magnitudes |-> Force([i \in 0..(numPoints - 1) |->
                                  RMul(calculateMaskAt(f, freq[i]), f.gain)])]

\* the filters the response is asked of: set up through the setters
ResponseFilters ==
    {setGain(newFilter("script"), R(1)),
     setGain(setFlatWidth(setWidth(setCenterFreq(newFilter("script"), R(6000)),
                                   R(2000)), R(1000)), R(2)),
     setGain(setFlatWidth(setCenterFreq(newFilter("script"), R(6000)), R(9000)),
             R(1)),
     setCenterFreq(newFilter("script"), R(6000))}

\* the ranges asked for: <<minFreq, maxFreq>>
ResponseRanges ==
    {<<R(0), R(22050)>>, <<R(5000), R(7000)>>, <<R(3500), R(8500)>>,
     <<R(6000), R(6000)>>}

ResponseCalls ==
    {[minFreq |-> r[1], maxFreq |-> r[2], numPoints |-> n, called |-> FALSE,
      frequencies |-> <<>> @@ <<>>, magnitudes |-> <<>> @@ <<>>,
      before |-> descriptorDefaults] :
        r \in ResponseRanges, n \in 1..MaxPoints}

noResponse ==
    [minFreq |-> R(0), maxFreq |-> R(0), numPoints |-> 0, called |-> FALSE,
     frequencies |-> <<>> @@ <<>>, magnitudes |-> <<>> @@ <<>>,
     before |-> descriptorDefaults]

\* the visualiser asks the filter for its response
ResponseAsked(res) ==
    response' = [response EXCEPT !.called = TRUE,
                                 !.frequencies = res.frequencies,
                                 !.magnitudes = res.magnitudes,
                                 !.before = fieldsOf(filter)]

CalculateFrequencyResponse ==
    /\ response.numPoints > 0
    /\ ~response.called
    /\ ResponseAsked(calculateFrequencyResponse(filter, response.minFreq,
                                                response.maxFreq, response.numPoints))
    /\ UNCHANGED <<message, roundTrip, allPass>>
    /\ UNCHANGED <<sampleRate, dspVars, maskVars, graphVars, buildVars, appVars>>

NextResponse == CalculateFrequencyResponse


-----------------------------------------------------------------------------
(* fft and ifft called on their own.  The functions of plateau-processor.js *)
(* and of ftt.js are the same text line by line                            *)

\* the lengths at which the model's cosines, and so its transforms, are exact
FftSizes == {1, 2, 4}

SampleValues == {R(-1), R(0), Half}

\* the real sequences transformed
RealSequences == UNION {[0..(n - 1) -> SampleValues] : n \in FftSizes}

\* the samples as Complex numbers: new Complex(x[i], 0)
complexOf(x) == [i \in DOMAIN x |-> Complex(x[i], R(0))]

noRoundTrip ==
    [x |-> <<>> @@ <<>>, spectrum |-> <<>> @@ <<>>, back |-> <<>> @@ <<>>,
     done |-> FALSE]

\* the state after ifft(fft(x)) was computed
Transformed(spectrum) ==
    roundTrip' = [roundTrip EXCEPT !.spectrum = spectrum, !.back = ifft(spectrum),
                                   !.done = TRUE]

\* fft is applied to the sequence and ifft to the result
RoundTrip ==
    /\ Length(roundTrip.x) > 0
    /\ ~roundTrip.done
    /\ Transformed(fft(Force(complexOf(roundTrip.x))))
    /\ UNCHANGED <<message, response, allPass>>
    /\ UNCHANGED <<sampleRate, dspVars, maskVars, graphVars, buildVars, appVars>>

NextFft == RoundTrip

-----------------------------------------------------------------------------
(* process() with the mask forced to 1 and gain 1.  The frame has 4 samples *)
(* and the block 2, so that fft and ifft are exact                          *)

AllPassFrameSize == 4
AllPassBlockSize == 2

AllPassSamples == {R(-1), R(0), R(1), R(2)}

AllPassBlocks == [0..(AllPassBlockSize - 1) -> AllPassSamples]

\* process(): inputBuffer and fftInput for a frame of n samples
allPassInput(window, input, n) ==
    [i \in 0..(n - 1) |->
        Complex(IF i < Length(input) THEN RMul(input[i], window[i]) ELSE R(0), R(0))]

\* process(): the spectrum scaled by filterMask[i] * this.gain, both 1
allPassSpectrum(fftOutput) ==
    [i \in DOMAIN fftOutput |-> scale(fftOutput[i], RMul(R(1), R(1)))]

\* process(): the real part of the inverse transform times the window
allPassSynthesis(ifftOutput, window, n) ==
    Force([i \in 0..(n - 1) |-> RMul(ifftOutput[i].real, window[i])])

\* process(): this.processedOutput of the block
allPassFrame(window, input, n) ==
    allPassSynthesis(
        ifft(Force(allPassSpectrum(fft(Force(allPassInput(window, input, n)))))),
        window, n)

\* process(): the overlap-add loop for a frame of n samples
allPassOverlap(processed, overlapped, len, n) ==
    Force([i \in 0..(n - 1) |->
        IF i < len
        THEN IF i + len < n THEN processed[i + len] ELSE R(0)
        ELSE overlapped[i]])

\* the stream so far with one more block
extended(stream, block) ==
    Force([k \in 0..(Length(stream) + Length(block) - 1) |->
        IF k < Length(stream) THEN stream[k] ELSE block[k - Length(stream)]])

noAllPass ==
    [window |-> Force(hanning(AllPassFrameSize)),
     overlappedOutput |-> Zeros(AllPassFrameSize),
     inputs |-> <<>> @@ <<>>, outputs |-> <<>> @@ <<>>, blocks |-> 0]

\* the state after a block whose processed frame is given
AllPassReturns(input, processed) ==
    allPass' =
        [allPass EXCEPT
            !.overlappedOutput = allPassOverlap(processed, @, Length(input),
                                                AllPassFrameSize),
            !.inputs = extended(@, input),
            !.outputs = extended(@, overlapSum(processed, allPass.overlappedOutput,
                                               Length(input))),
            !.blocks = @ + 1]

\* the host calls process() for the next block of the stream
AllPassProcess ==
    \E input \in AllPassBlocks :
        /\ allPass.blocks < MaxBlocks
        /\ AllPassReturns(input, allPassFrame(allPass.window, input, AllPassFrameSize))
        /\ UNCHANGED <<message, response, roundTrip>>
        /\ UNCHANGED <<sampleRate, dspVars, maskVars, graphVars, buildVars, appVars>>

NextAllPass == AllPassProcess

InitCalls ==
    /\ message = noMessage
    /\ response = noResponse
    /\ roundTrip = noRoundTrip
    /\ allPass = noAllPass


-----------------------------------------------------------------------------
(* WhiteNoiseGenerator.addFilter with the parameters of a plateau filter *)

\* value || fallback: 0 and undefined are falsy
orDefault(value, fallback) ==
    IF value = Undefined \/ value = R(0) THEN fallback ELSE value

\* the four setter calls of addFilter, in the order of the source, on the
\* filter the constructor returned
configured(f, filterParams) ==
    setGain(
        setFlatWidth(
            setWidth(
                setCenterFreq(f, orDefault(filterParams.frequency, R(1000))),
                orDefault(filterParams.width, R(200))),
            orDefault(filterParams.flatWidth, R(100))),
        orDefault(filterParams.gain, R(1)))

FilterParams ==
    [frequency : {R(MinCenterFreq), R(6000)},
     width : {R(1000), R(3000), R(8000)},
     flatWidth : {R(MinFlatWidth), R(500), R(2500)},
     gain : {R(MinGain), Half, R(1)}]

\* parameters: the AudioParam values of the filter's AudioWorkletNode, which
\* start at the defaults of the descriptors
noAdded ==
    [done |-> FALSE, params |-> Undefined, node |-> Undefined,
     parameters |-> Undefined]

\* addFilter(filterParams) with type 'plateau' on a fresh generator: the
\* filter is constructed, configured and put into the chain
AddPlateauFilter ==
    \E kind \in {"undefined", "script"}, filterParams \in FilterParams :
        /\ ~added.done
        /\ Len(filters) = 0
        /\ procKind' = [procKind EXCEPT ![1] = kind]
        /\ filters' = Append(filters, 1)
        /\ links' = rebuildFilterChain(constructFilter(links, 1, kind),
                                       filters', noiseNode)
        /\ suspended' = suspended \cup Members(filters')
        /\ added' = [done |-> TRUE, params |-> filterParams,
                     node |-> configured(newFilter(kind), filterParams),
                     parameters |-> Undefined]
        /\ UNCHANGED <<noiseNode, noiseCount, isPlaying, pendingStarts, lastCall>>
        /\ UNCHANGED <<bypass, ui, boot, player, seeded>>
        /\ UNCHANGED <<sampleRate, dspVars, maskVars, buildVars, callVars>>

\* _createWorkletProcessor() of the added filter resumes after addModule:
\* the AudioWorkletNode is created, _updateParameters() runs and the nodes
\* are connected
AddedProcessorCreated ==
    /\ added.done
    /\ added.node.processor = "undefined"
    /\ LET f == [added.node EXCEPT !.processor = "worklet"]
       IN  added' = [added EXCEPT !.node = f,
                                  !.parameters = updateParameters(f, descriptorDefaults)]
    /\ procKind' = [procKind EXCEPT ![1] = "worklet"]
    /\ links' = wireProcessor(links, 1)
    /\ UNCHANGED <<suspended, filters, noiseNode, noiseCount, isPlaying,
                   pendingStarts, lastCall>>
    /\ UNCHANGED <<bypass, ui, boot, player, seeded>>
    /\ UNCHANGED <<sampleRate, dspVars, maskVars, buildVars, callVars>>

\* _createWorkletProcessor() of the added filter catches a failure
AddedProcessorFallback ==
    /\ added.done
    /\ added.node.processor = "undefined"
    /\ added' = [added EXCEPT !.node = [added.node EXCEPT !.processor = "script"]]
    /\ procKind' = [procKind EXCEPT ![1] = "script"]
    /\ links' = wireProcessor(links, 1)
    /\ UNCHANGED <<suspended, filters, noiseNode, noiseCount, isPlaying,
                   pendingStarts, lastCall>>
    /\ UNCHANGED <<bypass, ui, boot, player, seeded>>
    /\ UNCHANGED <<sampleRate, dspVars, maskVars, buildVars, callVars>>

NextAdd ==
    \/ AddPlateauFilter
    \/ AddedProcessorCreated
    \/ AddedProcessorFallback

-----------------------------------------------------------------------------
(* process() across blocks on the gain-zero fast path *)

MaxRun == 4

\* the gains the node's AudioParam takes from block to block
RunGains == {R(0), R(1)}

\* the render quanta of the run: silence, a constant signal and its negative
RunBlocks == Blocks \cup {[i \in 0..(BlockSize - 1) |-> R(-1)]}

\* tail: overlappedOutput as the last fully processed block left it;
\* skipped: the fast-path blocks since then; crossed: the fast-path blocks
\* between the last two fully processed blocks
noBypass ==
    [processor |-> newProcessor, before |-> newProcessor,
     output |-> Zeros(BlockSize), kind |-> "none", blocks |-> 0,
     tail |-> Undefined, tailBefore |-> Undefined, skipped |-> 0, crossed |-> 0]

\* the state after a process() call that returned res
RunReturns(res) ==
    bypass' =
        [processor |-> res.processor, before |-> bypass.processor,
         output |-> res.output, kind |-> res.kind, blocks |-> bypass.blocks + 1,
         tail |-> IF res.kind = "full" THEN res.processor.overlappedOutput
                  ELSE bypass.tail,
         tailBefore |-> IF res.kind = "full" THEN bypass.tail ELSE bypass.tailBefore,
         skipped |-> IF res.kind = "full" THEN 0 ELSE bypass.skipped + 1,
         crossed |-> IF res.kind = "full" THEN bypass.skipped ELSE bypass.crossed]

\* the host calls process() with a render quantum and the current gain
RunProcess ==
    \E data \in RunBlocks, gain \in RunGains :
        /\ bypass.blocks < MaxRun
        /\ RunReturns(process(bypass.processor, [kind |-> "block", data |-> data],
                              [descriptorDefaults EXCEPT !.gain = gain]))
        /\ UNCHANGED <<added, ui, boot, player, seeded>>
        /\ UNCHANGED <<sampleRate, dspVars, maskVars, graphVars, buildVars, callVars>>

NextRun == RunProcess

-----------------------------------------------------------------------------
(* The taper branch of the three mask implementations *)

\* createPlateauFilterMask of plateau-processor.js: the bins of a call that
\* take the transition branch, and the denominator they divide by
processorTapered(call, rate) ==
    {i \in 0..(call.size - 1) :
        LET absDiff == RAbs(RSub(RAbs(foldedFreq(i, rate, call.size)), call.centerFreq))
        IN  /\ ~RLt(absDiff, RMul(call.flatWidth, Half))
            /\ RLt(absDiff, RMul(call.width, Half))}

processorDenominator(call) == RSub(RMul(call.width, Half), RMul(call.flatWidth, Half))

\* createPlateauFilterMask of ftt.js, called with delta = flatWidth
fttTapered(call, frequencies) ==
    {i \in 0..(call.size - 1) :
        LET absDiff == RAbs(RSub(RAbs(frequencies[i]), call.centerFreq))
        IN  /\ ~RLt(absDiff, call.flatWidth)
            /\ RLt(absDiff, call.width)}

fttDenominator(call) == RSub(call.width, call.flatWidth)

\* _calculateMask of PlateauFilter over the frequencies of a response
filterTapered(f, frequencies) ==
    {i \in DOMAIN frequencies :
        /\ frequencies[i] \notin NonFinite
        /\ LET freqDiff == RAbs(RSub(frequencies[i], f.centerFreq))
           IN  /\ ~RLt(freqDiff, RMul(f.flatWidth, Half))
               /\ RLe(freqDiff, RMul(f.width, Half))}

filterDenominator(f) == RSub(RMul(f.width, Half), RMul(f.flatWidth, Half))

NextTaper ==
    \/ CreateMask
    \/ CalculateFrequencyResponse

-----------------------------------------------------------------------------
(* UIControls and AppEvents: the filter list of the page and the generator *)

FilterTypes == {"bandpass", "plateau"}

\* the BiquadFilterNodes inside a bandpass filter of order 4; its inputNode
\* is the first high-pass and its outputNode the gain
lowpass(f) == <<"lowpass", f>>
extraHighpass(f) == <<"extraHighpass", f>>
extraLowpass(f) == <<"extraLowpass", f>>

\* addFilter({type: 'bandpass', ...}): the nodes created and connected
constructBandpass(L, f) ==
    L \cup {<<inputNode(f), lowpass(f)>>, <<lowpass(f), extraHighpass(f)>>,
            <<extraHighpass(f), extraLowpass(f)>>, <<extraLowpass(f), outputNode(f)>>}

\* findIndex(f => f.params.id === id) on the generator's list: 0 for -1
findIndex(F, id) ==
    IF id \in Members(F) THEN CHOOSE i \in 1..Len(F) : F[i] = id ELSE 0

\* noiseGenerator.addFilter(params) for the filter with this id
generatorAdds(id, type, kind) ==
    /\ procKind' = [procKind EXCEPT ![id] = IF type = "plateau" THEN kind ELSE "biquad"]
    /\ filters' = Append(filters, id)
    /\ links' = rebuildFilterChain(
                    IF type = "plateau" THEN constructFilter(links, id, kind)
                    ELSE constructBandpass(links, id),
                    filters', noiseNode)
    /\ suspended' = suspended \cup Members(filters')

\* noiseGenerator.removeFilter(index)
generatorRemoves(index) ==
    /\ filters' = splice(filters, index)
    /\ links' = rebuildFilterChain(disconnectFilter(links, filters[index]),
                                   filters', noiseNode)
    /\ suspended' = suspended \cup Members(filters)

\* filters: UIControls.filters as ids; types: the type of each filter made;
\* timers: the ids whose re-creation setTimeout has not fired yet
noUi ==
    [filters |-> <<>>, types |-> [f \in FilterIds |-> "none"], nextFilterId |-> 1,
     timers |-> {}]

\* onAddFilter(): the filter is pushed and the 'filter-add' handler of
\* AppEvents hands it to the generator
UiAddFilter ==
    \E type \in FilterTypes, kind \in {"undefined", "script"} :
        LET id == ui.nextFilterId
        IN  /\ id \in FilterIds
            /\ ui' = [ui EXCEPT !.filters = Append(@, id), !.types[id] = type,
                                !.nextFilterId = id + 1]
            /\ generatorAdds(id, type, kind)
            /\ UNCHANGED <<noiseNode, noiseCount, isPlaying, pendingStarts, lastCall>>
            /\ UNCHANGED <<added, bypass, boot, player, seeded>>
            /\ UNCHANGED <<sampleRate, dspVars, maskVars, buildVars, callVars>>

\* onRemoveFilter(id): the filter leaves the list of the page and the
\* 'filter-remove' handler removes it from the generator if it finds it
UiRemoveFilter ==
    \E id \in Members(ui.filters) :
        /\ ui' = [ui EXCEPT !.filters = splice(@, findIndex(@, id))]
        /\ IF findIndex(filters, id) = 0
           THEN UNCHANGED <<filters, links, suspended>>
           ELSE generatorRemoves(findIndex(filters, id))
        /\ UNCHANGED <<procKind, noiseNode, noiseCount, isPlaying, pendingStarts,
                       lastCall>>
        /\ UNCHANGED <<added, bypass, boot, player, seeded>>
        /\ UNCHANGED <<sampleRate, dspVars, maskVars, buildVars, callVars>>

\* a slider of the filter moves.  _updatePlateauFilterInRealtime calls a
\* setter of the node, which changes neither list;
\* _updateBandpassFilterInRealtime removes the filter from the generator and
\* sets a timer that adds it again
UiSlider ==
    \E id \in Members(ui.filters) :
        /\ IF ui.types[id] = "bandpass" /\ findIndex(filters, id) # 0
           THEN /\ generatorRemoves(findIndex(filters, id))
                /\ ui' = [ui EXCEPT !.timers = @ \cup {id}]
           ELSE UNCHANGED <<filters, links, suspended, ui>>
        /\ UNCHANGED <<procKind, noiseNode, noiseCount, isPlaying, pendingStarts,
                       lastCall>>
        /\ UNCHANGED <<added, bypass, boot, player, seeded>>
        /\ UNCHANGED <<sampleRate, dspVars, maskVars, buildVars, callVars>>

\* the timer of _updateBandpassFilterInRealtime fires: addFilter(filter)
UiTimerFires ==
    \E id \in ui.timers :
        /\ ui' = [ui EXCEPT !.timers = @ \ {id}]
        /\ generatorAdds(id, "bandpass", "biquad")
        /\ UNCHANGED <<noiseNode, noiseCount, isPlaying, pendingStarts, lastCall>>
        /\ UNCHANGED <<added, bypass, boot, player, seeded>>
        /\ UNCHANGED <<sampleRate, dspVars, maskVars, buildVars, callVars>>

NextUi ==
    \/ UiAddFilter
    \/ UiRemoveFilter
    \/ UiSlider
    \/ UiTimerFires
    \/ ProcessorCreated
    \/ ProcessorFallback

-----------------------------------------------------------------------------
(* AppEvents.init and AudioContextManager.initialize *)

MaxToggles == 3

Toggles == 1..MaxToggles

\* UIControls.onPlayToggle flips isPlaying at every click: the detail of the
\* k-th 'playback-toggle' event
detailIsPlaying(k) == k % 2 = 1

\* phase: where the handler of each 'playback-toggle' event stands;
\* contexts and generators count the objects created, managerContext,
\* audioContext and noiseGenerator name the one a field refers to (0: null);
\* running: the generators whose last call was start()
noBoot ==
    [toggles |-> 0, phase |-> [k \in Toggles |-> "none"],
     mediaDevices |-> TRUE,
     managerInitialized |-> FALSE, managerContext |-> 0, contexts |-> 0,
     isInitialized |-> FALSE, audioContext |-> 0,
     generators |-> 0, noiseGenerator |-> 0,
     isPlaying |-> FALSE, running |-> {}]

\* togglePlayback(): start() or stop() on the current generator
togglePlayback(b, playing) ==
    [b EXCEPT !.isPlaying = playing,
              !.running = IF b.noiseGenerator = 0 THEN @
                          ELSE IF playing THEN @ \cup {b.noiseGenerator}
                          ELSE @ \ {b.noiseGenerator}]

\* initialize() returns and init() goes on after its await: the generator is
\* created, and the handler of event k toggles the playback
initialized(b, k) ==
    LET c == [b EXCEPT !.phase[k] = "done",
                       !.managerInitialized = TRUE,
                       !.audioContext = b.managerContext,
                       !.generators = @ + 1,
                       !.noiseGenerator = b.generators + 1,
                       !.isInitialized = TRUE]
    IN  togglePlayback(c, detailIsPlaying(k))

\* a 'playback-toggle' event is dispatched: its handler runs up to the
\* first await that waits for the host, which is in initialize() unless
\* the application or the manager is initialised
PlaybackToggle ==
    LET k == boot.toggles + 1
        b == [boot EXCEPT !.toggles = k]
    IN  /\ k \in Toggles
        /\ boot' =
             IF boot.isInitialized
             THEN togglePlayback([b EXCEPT !.phase[k] = "done"], detailIsPlaying(k))
             ELSE IF boot.managerInitialized
             THEN initialized(b, k)
             ELSE [b EXCEPT !.phase[k] = "resuming",
                            !.contexts = @ + 1,
                            !.managerContext = boot.contexts + 1]
        /\ UNCHANGED <<added, bypass, ui, player, seeded>>
        /\ UNCHANGED <<sampleRate, dspVars, maskVars, graphVars, buildVars, callVars>>

\* context.resume() settles: on a rejection initialize() rejects, init()
\* returns false and the handler ends
ResumeSettled ==
    \E k \in Toggles, ok \in BOOLEAN :
        /\ boot.phase[k] = "resuming"
        /\ boot' = IF ~ok THEN [boot EXCEPT !.phase[k] = "failed"]
                   ELSE IF boot.mediaDevices THEN [boot EXCEPT !.phase[k] = "enumerating"]
                   ELSE initialized(boot, k)
        /\ UNCHANGED <<added, bypass, ui, player, seeded>>
        /\ UNCHANGED <<sampleRate, dspVars, maskVars, graphVars, buildVars, callVars>>

\* navigator.mediaDevices.enumerateDevices() settles
DevicesEnumerated ==
    \E k \in Toggles, ok \in BOOLEAN :
        /\ boot.phase[k] = "enumerating"
        /\ boot' = IF ok THEN initialized(boot, k)
                   ELSE [boot EXCEPT !.phase[k] = "failed"]
        /\ UNCHANGED <<added, bypass, ui, player, seeded>>
        /\ UNCHANGED <<sampleRate, dspVars, maskVars, graphVars, buildVars, callVars>>

NextBoot ==
    \/ PlaybackToggle
    \/ ResumeSettled
    \/ DevicesEnumerated

-----------------------------------------------------------------------------
(* NoiseShaperUI: playAudio, stopAudio and the parameter sliders *)

MaxPosts == 4

\* the values the sliders take
SliderValues ==
    {<<"centerFreq", 10000>>, <<"centerFreq", 6000>>, <<"width", 2000>>,
     <<"width", 3000>>, <<"delta", 1000>>}

\* params: this.params; context: the state of this.audioContext, "none"
\* for null; workletNode: whether the node exists; port: the messages posted
\* to the worklet; phase: where the playAudio() call in flight stands;
\* outcome, duringPlay and atPlay: how the last playAudio() call ended, what
\* it posted from its 'play' message on and this.params when it returned
\* (history)
noPlayer ==
    [params |-> [centerFreq |-> 10000, width |-> 2000, delta |-> 1000, volume |-> Half],
     context |-> "none", workletNode |-> FALSE, isPlaying |-> FALSE,
     port |-> <<>>, phase |-> "idle", outcome |-> "none", duringPlay |-> <<>>,
     atPlay |-> Undefined]

parametersMessage(p) ==
    [type |-> "parameters",
     parameters |-> [centerFreq |-> p.params.centerFreq, width |-> p.params.width,
                     delta |-> p.params.delta, volume |-> p.params.volume]]

\* a message without parameters
plainMessage(type) == [type |-> type, parameters |-> Undefined]

\* updateWorkletParameters()
updateWorkletParameters(p) ==
    IF ~p.workletNode \/ ~p.isPlaying THEN p
    ELSE [p EXCEPT !.port = Append(@, parametersMessage(p))]

\* stopAudio()
stopAudio(p) ==
    [p EXCEPT !.port = IF p.workletNode THEN Append(@, plainMessage("stop")) ELSE @,
              !.context = IF @ = "running" THEN "suspended" ELSE @,
              !.isPlaying = FALSE]

\* playAudio() from the 'play' message to its return
playStarted(p) ==
    LET posted == [p EXCEPT !.port = Append(@, plainMessage("play"))]
        updated == updateWorkletParameters(posted)
    IN  [updated EXCEPT !.isPlaying = TRUE, !.phase = "idle", !.outcome = "started",
                        !.duringPlay = SubSeq(updated.port, Len(p.port) + 1,
                                              Len(updated.port)),
                        !.atPlay = p.params]

\* playAudio() is called while no other call is in flight: it returns at
\* once when playing, awaits initializeAudio() without a node, awaits
\* resume() on a suspended context and otherwise starts
PlayAudio ==
    /\ player.phase = "idle"
    /\ Len(player.port) < MaxPosts
    /\ player' =
         IF player.isPlaying THEN [player EXCEPT !.outcome = "ignored"]
         ELSE IF player.context = "none" \/ ~player.workletNode
         THEN [player EXCEPT !.phase = "initializing",
                             !.context = IF @ = "none" THEN "suspended" ELSE @]
         ELSE IF player.context = "suspended"
         THEN [player EXCEPT !.phase = "resuming"]
         ELSE playStarted(player)
    /\ UNCHANGED <<added, bypass, ui, boot, seeded>>
    /\ UNCHANGED <<sampleRate, dspVars, maskVars, graphVars, buildVars, callVars>>

\* initializeAudio() settles: the node exists and the context runs, or the
\* error is thrown on and playAudio() calls stopAudio()
AudioInitialized ==
    \E ok \in BOOLEAN :
        /\ player.phase = "initializing"
        /\ player' =
             IF ok
             THEN playStarted([player EXCEPT !.workletNode = TRUE,
                                             !.context = "running"])
             ELSE [stopAudio([player EXCEPT !.workletNode = FALSE])
                      EXCEPT !.phase = "idle", !.outcome = "failed"]
        /\ UNCHANGED <<added, bypass, ui, boot, seeded>>
        /\ UNCHANGED <<sampleRate, dspVars, maskVars, graphVars, buildVars, callVars>>

\* audioContext.resume() settles
ContextResumed ==
    /\ player.phase = "resuming"
    /\ player' = playStarted([player EXCEPT !.context = "running"])
    /\ UNCHANGED <<added, bypass, ui, boot, seeded>>
    /\ UNCHANGED <<sampleRate, dspVars, maskVars, graphVars, buildVars, callVars>>

\* the stop button
StopAudio ==
    /\ player.isPlaying
    /\ Len(player.port) < MaxPosts
    /\ player' = stopAudio(player)
    /\ UNCHANGED <<added, bypass, ui, boot, seeded>>
    /\ UNCHANGED <<sampleRate, dspVars, maskVars, graphVars, buildVars, callVars>>

\* a parameter slider moves
SliderInput ==
    \E v \in SliderValues :
        /\ Len(player.port) < MaxPosts
        /\ player' = updateWorkletParameters(
                         [player EXCEPT !.params = [@ EXCEPT ![v[1]] = v[2]]])
        /\ UNCHANGED <<added, bypass, ui, boot, seeded>>
        /\ UNCHANGED <<sampleRate, dspVars, maskVars, graphVars, buildVars, callVars>>

NextPlayer ==
    \/ PlayAudio
    \/ AudioInitialized
    \/ ContextResumed
    \/ StopAudio
    \/ SliderInput

-----------------------------------------------------------------------------
(* MulberryRNG (webbeta2/rng.js).  A 32-bit word is <<high, low>>, two     *)
(* halves of 16 bits; the seed is kept modulo 2^32, which is what the bit  *)
(* operators of random() read of it                                        *)

Half16 == 65536

RECURSIVE Xor16(_, _)
Xor16(a, b) ==
    IF a = 0 /\ b = 0 THEN 0
    ELSE (((a % 2) + (b % 2)) % 2) + 2 * Xor16(a \div 2, b \div 2)

RECURSIVE Or16(_, _)
Or16(a, b) ==
    IF a = 0 /\ b = 0 THEN 0
    ELSE (IF a % 2 = 1 \/ b % 2 = 1 THEN 1 ELSE 0) + 2 * Or16(a \div 2, b \div 2)

RECURSIVE Pow2(_)
Pow2(n) == IF n = 0 THEN 1 ELSE 2 * Pow2(n - 1)

\* ToInt32 of an integer seed, as a bit pattern
toWord(n) == <<(n \div Half16) % Half16, n % Half16>>

\* a ^ b
wordXor(a, b) == <<Xor16(a[1], b[1]), Xor16(a[2], b[2])>>

\* a | c for a constant c below 2^16
wordOr(a, c) == <<a[1], Or16(a[2], c)>>

\* a >>> n for 0 < n < 16
wordShr(a, n) ==
    <<a[1] \div Pow2(n), (a[2] \div Pow2(n)) + ((a[1] % Pow2(n)) * Pow2(16 - n))>>

\* the 32 bits of a + b
wordAdd(a, b) ==
    LET low == a[2] + b[2]
    IN  <<(a[1] + b[1] + (low \div Half16)) % Half16, low % Half16>>

\* the low 16 bits of x * y for halves x and y
mulLow16(x, y) ==
    (((x % 256) * (y % 256))
        + (((((x \div 256) * (y % 256)) + ((x % 256) * (y \div 256))) % 256) * 256))
            % Half16

\* the high 16 bits of the 32-bit product x * y of two halves
mulHigh16(x, y) ==
    LET p0 == (x % 256) * (y % 256)
        p1 == ((x \div 256) * (y % 256)) + ((x % 256) * (y \div 256))
        p2 == (x \div 256) * (y \div 256)
        low == p0 + ((p1 % 256) * 256)
    IN  (p2 + (p1 \div 256) + (low \div Half16)) % Half16

\* Math.imul(a, b)
imul(a, b) ==
    <<(mulHigh16(a[2], b[2]) + mulLow16(a[1], b[2]) + mulLow16(a[2], b[1])) % Half16,
      mulLow16(a[2], b[2])>>

\* 0x6D2B79F5
Increment == <<27947, 31221>>

\* new MulberryRNG(seed)
newRng(seed) == [seed |-> toWord(seed)]

\* random(): the generator afterwards and the value returned, as the
\* numerator n of n / 4294967296
random(rng) ==
    LET seed == wordAdd(rng.seed, Increment)
        t1 == imul(wordXor(seed, wordShr(seed, 15)), wordOr(seed, 1))
        t2 == wordXor(t1, wordAdd(t1, imul(wordXor(t1, wordShr(t1, 7)), wordOr(t1, 61))))
    IN  [rng |-> [seed |-> seed], value |-> wordXor(t2, wordShr(t2, 14))]

\* n / 4294967296 lies in [0, 1)
inUnitInterval(value) ==
    /\ value[1] \in 0..(Half16 - 1)
    /\ value[2] \in 0..(Half16 - 1)

-----------------------------------------------------------------------------
(* generateFilteredNoise (webbeta2/ui.js) and its callers *)

MaxSamples == 2
MaxDraws == 2

\* the seeds of the export dialog and the values of
\* Math.floor(Math.random() * 1000000)
SeedValues == {1, 12345, 999999}
RandomSeeds == {0, 12345, 424242}

RngTypes == {"uniform", "standard_normal"}

\* what reading a property seed that the options object lacks yields
NoSeed == -1

\* the options object processSingleSampleExport and generatePreview build:
\* it has no property seed
exportOptions(exportParams) ==
    [useRandomSeed |-> exportParams.useRandomSeed,
     seedValue |-> exportParams.seedValue,
     rngType |-> exportParams.rngType,
     seed |-> NoSeed]

\* the noise loop: the values drawn for sample i and the following ones.
\* A uniform sample is getUniform() * 2 - 1, a normal one a function of two
\* values; each is kept as the values it was computed from
RECURSIVE noiseFrom(_, _, _, _)
noiseFrom(rng, rngType, i, numSamples) ==
    IF i >= numSamples THEN <<>>
    ELSE IF rngType = "standard_normal"
    THEN LET u1 == random(rng)
             u2 == random(u1.rng)
         IN  <<<<u1.value, u2.value>>>> \o noiseFrom(u2.rng, rngType, i + 1, numSamples)
    ELSE LET u == random(rng)
         IN  <<<<u.value>>>> \o noiseFrom(u.rng, rngType, i + 1, numSamples)

\* generateFilteredNoise(numSamples, options) when Math.random() yields
\* drawn: the seed used and the buffer returned.  The filtering (fft, mask,
\* ifft) is a function of the noise and of this.params; the buffer is kept
\* as the noise it is computed from
generateFilteredNoise(numSamples, options, drawn) ==
    LET useSeed == options.seed # NoSeed
        seed == IF useSeed THEN options.seed ELSE drawn
        rngType == IF options.rngType = "" THEN "uniform" ELSE options.rngType
    IN  [useSeed |-> useSeed, seed |-> seed,
         buffer |-> noiseFrom(newRng(seed), rngType, 0, numSamples)]

ExportParams ==
    [useRandomSeed : BOOLEAN, seedValue : SeedValues, rngType : RngTypes]

\* exportParams, numSamples: the settings of the export; generated: the
\* results of the exports made with them; first, second: two MulberryRNG
\* instances built with seedValue; firstValues, secondValues: what their
\* random() returned so far
noSeeded ==
    [exportParams |-> [useRandomSeed |-> TRUE, seedValue |-> 1, rngType |-> "uniform"],
     numSamples |-> 1, generated |-> <<>>,
     first |-> newRng(1), second |-> newRng(1),
     firstValues |-> <<>>, secondValues |-> <<>>]

\* processSingleSampleExport(): one more buffer with the same settings
ProcessSingleSampleExport ==
    \E drawn \in RandomSeeds :
        /\ Len(seeded.generated) < 2
        /\ seeded' = [seeded EXCEPT !.generated =
                          Append(@, generateFilteredNoise(seeded.numSamples,
                                        exportOptions(seeded.exportParams), drawn))]
        /\ UNCHANGED <<added, bypass, ui, boot, player>>
        /\ UNCHANGED <<sampleRate, dspVars, maskVars, graphVars, buildVars, callVars>>

\* random() on the first instance
RandomFirst ==
    /\ Len(seeded.firstValues) < MaxDraws
    /\ LET r == random(seeded.first)
       IN  seeded' = [seeded EXCEPT !.first = r.rng,
                                    !.firstValues = Append(@, r.value)]
    /\ UNCHANGED <<added, bypass, ui, boot, player>>
    /\ UNCHANGED <<sampleRate, dspVars, maskVars, graphVars, buildVars, callVars>>

\* random() on the second instance
RandomSecond ==
    /\ Len(seeded.secondValues) < MaxDraws
    /\ LET r == random(seeded.second)
       IN  seeded' = [seeded EXCEPT !.second = r.rng,
                                    !.secondValues = Append(@, r.value)]
    /\ UNCHANGED <<added, bypass, ui, boot, player>>
    /\ UNCHANGED <<sampleRate, dspVars, maskVars, graphVars, buildVars, callVars>>

NextSeeded ==
    \/ ProcessSingleSampleExport
    \/ RandomFirst
    \/ RandomSecond

-----------------------------------------------------------------------------
(* The application variables before anything happened *)


InitApp ==
    /\ added = noAdded
    /\ bypass = noBypass
    /\ ui = noUi
    /\ boot = noBoot
    /\ player = noPlayer
    /\ seeded = noSeeded

-----------------------------------------------------------------------------
(* Specifications *)

Init == InitDsp /\ InitMask /\ InitGraph /\ InitBuild /\ InitCalls /\ InitApp

Next == NextDsp

Spec == Init /\ [][Next]_vars

\* the mask generators alone, at every sample rate
InitMaskCalls ==
    /\ sampleRate \in SampleRates
    /\ processor = newProcessor
    /\ parameters = descriptorDefaults
    /\ output = Zeros(BlockSize)
    /\ blockInfo = noBlock
    /\ blocks = 0
    /\ filter = newFilter("undefined")
    /\ fallbackOutput = Zeros(ScriptBufferSize)
    /\ fallbackInfo = noFallbackBlock
    /\ fallbackBlocks = 0
    /\ updates = 0
    /\ received = 0
    /\ maskCall \in MaskCalls
    /\ masks = noMasks
    /\ InitGraph
    /\ InitBuild
    /\ InitCalls
    /\ InitApp

SpecMask == InitMaskCalls /\ [][NextMask]_vars

\* the audio graph alone
InitGraphOnly ==
    /\ InitDsp
    /\ filter = newFilter("undefined")
    /\ InitMask
    /\ InitGraph
    /\ InitBuild
    /\ InitCalls
    /\ InitApp

SpecGraph == InitGraphOnly /\ [][NextGraph]_vars

\* the processor and the filter before any block, any update and any call
InitIdle(rate, p, f) ==
    /\ sampleRate = rate
    /\ processor = p
    /\ parameters = descriptorDefaults
    /\ output = Zeros(BlockSize)
    /\ blockInfo = noBlock
    /\ blocks = 0
    /\ filter = f
    /\ fallbackOutput = Zeros(ScriptBufferSize)
    /\ fallbackInfo = noFallbackBlock
    /\ fallbackBlocks = 0
    /\ updates = 0
    /\ received = 0
    /\ InitMask
    /\ InitGraph

\* filters constructed on every kind of page
InitBuilds ==
    /\ InitIdle(48000, newProcessor, newFilter("undefined"))
    /\ host \in Hosts
    /\ build = [f \in FilterIds |-> noBuild]
    /\ InitCalls
    /\ InitApp

SpecBuild == InitBuilds /\ [][NextBuild]_vars

\* one message delivered to a processor
InitMessages ==
    /\ sampleRate = 48000
    /\ \E p \in {newProcessor, processedOnce} :
           InitIdle(48000, p, newFilter("undefined"))
    /\ InitBuild
    /\ message \in {[noMessage EXCEPT !.data = d] : d \in MessageData}
    /\ response = noResponse
    /\ roundTrip = noRoundTrip
    /\ allPass = noAllPass
    /\ InitApp

SpecMessage == InitMessages /\ [][NextMessage]_vars

\* one response asked of a filter
InitResponses ==
    /\ \E f \in ResponseFilters : InitIdle(48000, newProcessor, f)
    /\ InitBuild
    /\ message = noMessage
    /\ response \in ResponseCalls
    /\ roundTrip = noRoundTrip
    /\ allPass = noAllPass
    /\ InitApp

SpecResponse == InitResponses /\ [][NextResponse]_vars

\* one sequence transformed forth and back
InitFft ==
    /\ InitIdle(48000, newProcessor, newFilter("undefined"))
    /\ InitBuild
    /\ message = noMessage
    /\ response = noResponse
    /\ roundTrip \in {[noRoundTrip EXCEPT !.x = x] : x \in RealSequences}
    /\ allPass = noAllPass
    /\ InitApp

SpecFft == InitFft /\ [][NextFft]_vars

\* a stream through the all-pass pipeline
InitAllPass ==
    /\ InitIdle(48000, newProcessor, newFilter("undefined"))
    /\ InitBuild
    /\ InitCalls
    /\ InitApp

SpecAllPass == InitAllPass /\ [][NextAllPass]_vars

\* one plateau filter added to a fresh generator
InitAdd ==
    /\ InitIdle(48000, newProcessor, newFilter("undefined"))
    /\ InitBuild
    /\ InitCalls
    /\ InitApp

SpecAdd == InitAdd /\ [][NextAdd]_vars


\* a processor run through blocks whose gain comes and goes
InitRun ==
    /\ InitIdle(48000, newProcessor, newFilter("undefined"))
    /\ InitBuild
    /\ InitCalls
    /\ InitApp

SpecRun == InitRun /\ [][NextRun]_vars

\* a call of the mask generators, or a response asked of a filter
InitTaper ==
    \/ InitMaskCalls /\ response = noResponse
    \/ /\ \E f \in ResponseFilters : InitIdle(48000, newProcessor, f)
       /\ InitBuild
       /\ message = noMessage
       /\ response \in ResponseCalls
       /\ roundTrip = noRoundTrip
       /\ allPass = noAllPass
       /\ InitApp

SpecTaper == InitTaper /\ [][NextTaper]_vars

\* the page after the application was initialised and playback started
InitUi ==
    /\ sampleRate = 48000
    /\ processor = newProcessor
    /\ parameters = descriptorDefaults
    /\ output = Zeros(BlockSize)
    /\ blockInfo = noBlock
    /\ blocks = 0
    /\ filter = newFilter("undefined")
    /\ fallbackOutput = Zeros(ScriptBufferSize)
    /\ fallbackInfo = noFallbackBlock
    /\ fallbackBlocks = 0
    /\ updates = 0
    /\ received = 0
    /\ InitMask
    /\ links = {<<noise(1), gainNode>>, <<gainNode, analyserNode>>,
                <<analyserNode, destination>>}
    /\ procKind = [f \in FilterIds |-> "none"]
    /\ suspended = {}
    /\ filters = <<>>
    /\ noiseNode = 1
    /\ noiseCount = 1
    /\ isPlaying = TRUE
    /\ pendingStarts = 0
    /\ lastCall = "start"
    /\ InitBuild
    /\ InitCalls
    /\ InitApp

SpecUi == InitUi /\ [][NextUi]_vars

\* the page before the first click on Play, with and without
\* navigator.mediaDevices
InitBoot ==
    /\ InitIdle(48000, newProcessor, newFilter("undefined"))
    /\ InitBuild
    /\ InitCalls
    /\ added = noAdded
    /\ bypass = noBypass
    /\ ui = noUi
    /\ boot \in {[noBoot EXCEPT !.mediaDevices = m] : m \in BOOLEAN}
    /\ player = noPlayer
    /\ seeded = noSeeded

SpecBoot == InitBoot /\ [][NextBoot]_vars

\* the page of the second application before the first click on Play
InitPlayer ==
    /\ InitIdle(48000, newProcessor, newFilter("undefined"))
    /\ InitBuild
    /\ InitCalls
    /\ InitApp

SpecPlayer == InitPlayer /\ [][NextPlayer]_vars

\* an export with every setting of the dialog, and two generators built
\* with its seed
InitSeeded ==
    /\ InitIdle(48000, newProcessor, newFilter("undefined"))
    /\ InitBuild
    /\ InitCalls
    /\ added = noAdded
    /\ bypass = noBypass
    /\ ui = noUi
    /\ boot = noBoot
    /\ player = noPlayer
    /\ \E e \in ExportParams, n \in 1..MaxSamples :
           seeded = [noSeeded EXCEPT !.exportParams = e, !.numSamples = n,
                                     !.first = newRng(e.seedValue),
                                     !.second = newRng(e.seedValue)]

SpecSeeded == InitSeeded /\ [][NextSeeded]_vars

-----------------------------------------------------------------------------
(* Overlap-add *)

\* what a complete overlap-add keeps for the next block: the frame shifted by
\* one block, zero where the shifted frame ends
shiftedFrame(processed, len) ==
    [i \in 0..(fftSize - 1) |-> IF i + len < fftSize THEN processed[i + len] ELSE R(0)]

\* C1: on every block that is processed in full, each output sample is the
\* processed sample plus the overlap kept before the block, and afterwards the
\* overlap buffer holds the processed frame shifted by one block: entry i is
\* processed[i + B] for i < N - B and 0 from there on
C1_OverlapAdd ==
    blockInfo.kind = "full" =>
        /\ \A i \in 0..(BlockSize - 1) :
               output[i] = RAdd(processor.processedOutput[i], blockInfo.overlapBefore[i])
        /\ processor.overlappedOutput = shiftedFrame(processor.processedOutput, BlockSize)

-----------------------------------------------------------------------------
(* The two processing paths *)

\* the host renders a buffer through process(), one render quantum after the
\* other, with the same parameter values for every quantum
RECURSIVE renderStream(_, _, _, _)
renderedFrom(res, buffer, params, k) ==
    [i \in (k * BlockSize)..(k * BlockSize + BlockSize - 1) |->
        res.output[i - k * BlockSize]]
        @@ renderStream(res.processor, buffer, params, k + 1)

renderStream(p, buffer, params, k) ==
    IF k * BlockSize >= Length(buffer) THEN <<>> @@ <<>>
    ELSE renderedFrom(
             process(p, [kind |-> "block",
                         data |-> [i \in 0..(BlockSize - 1) |-> buffer[k * BlockSize + i]]],
                     params),
             buffer, params, k)

\* C2: for equal filter parameters and the same input samples the fallback
\* path (_processAudio) produces the output the real-time path (process, on a
\* fresh processor) produces
C2_SamePathOutput ==
    fallbackBlocks > 0 =>
        fallbackOutput = renderStream(newProcessor, fallbackInfo.input,
                                      fallbackInfo.used, 0)

-----------------------------------------------------------------------------
(* Parameter updates *)

\* the width correction of the processor applied to four field values
corrected(fields) ==
    [fields EXCEPT !.width = RMax(fields.width, RAdd(fields.flatWidth, R(1)))]

\* C3: a block that follows a parameter message builds its mask and scales
\* its bins with the values the processor held after the latest message
C3_MessageApplied ==
    (blockInfo.kind = "full" /\ blockInfo.received > 0) =>
        blockInfo.used = corrected(blockInfo.atStart)

\* C4: width > flatWidth holds strictly in every state of the PlateauFilter,
\* and in the processor whenever a mask is computed; parameters handed in
\* with width <= flatWidth leave width = flatWidth + 1
C4_WidthAboveFlatWidth ==
    /\ RLt(filter.flatWidth, filter.width)
    /\ blockInfo.mask > 0 =>
           /\ RLt(blockInfo.used.flatWidth, blockInfo.used.width)
           /\ RLe(blockInfo.handed.width, blockInfo.handed.flatWidth) =>
                  blockInfo.used.width = RAdd(blockInfo.handed.flatWidth, R(1))

\* a mask was computed for parameters handed in with width <= flatWidth
C4_Witness ==
    /\ blockInfo.mask > 0
    /\ RLe(blockInfo.handed.width, blockInfo.handed.flatWidth)

-----------------------------------------------------------------------------
(* The fast path and the early returns *)

\* C8: when the gain handed in for a block that has input is exactly 0, every
\* sample of the output block is 0, whatever the input and the overlap buffer
\* hold, and fft, ifft and createPlateauFilterMask are not called
C8_GainZeroBypass ==
    (blockInfo.kind \in {"bypass", "full"} /\ blockInfo.handed.gain = R(0)) =>
        /\ output = Zeros(Length(blockInfo.input))
        /\ blockInfo.fft = 0
        /\ blockInfo.ifft = 0
        /\ blockInfo.mask = 0

\* a block of non-zero input met gain 0 while the overlap buffer was non-zero
C8_Witness ==
    /\ blockInfo.kind = "bypass"
    /\ blockInfo.handed.gain = R(0)
    /\ blockInfo.input # Zeros(BlockSize)
    /\ blockInfo.overlapBefore # Zeros(fftSize)

\* C9: a call without input (no inputs, an empty input, or the input or the
\* output channel missing) leaves the output block all zeros and the overlap
\* buffer as it was, and returns true
C9_NoInput ==
    blockInfo.kind \in InputKinds \ {"block"} =>
        /\ \A i \in DOMAIN output : output[i] = R(0)
        /\ processor.overlappedOutput = blockInfo.overlapBefore
        /\ blockInfo.alive

\* a call without input while the overlap buffer was non-zero
C9_Witness ==
    /\ blockInfo.kind \in InputKinds \ {"block"}
    /\ blockInfo.overlapBefore # Zeros(fftSize)
    /\ output = Zeros(BlockSize)


-----------------------------------------------------------------------------
(* The mask *)

\* C6: entry 0 of every mask returned by the mask generators
\* (createPlateauFilterMask of the processor and of ftt.js) is exactly 0, for
\* every centre, width, flat width, sample rate and size, width <= flatWidth
\* included
C6_DcZero ==
    masks.called =>
        /\ masks.processor[0] = R(0)
        /\ ~masks.ftt.threw => masks.ftt.mask[0] = R(0)

\* both generators returned a mask whose loop had computed 1 for entry 0,
\* for a width that does not exceed the flat width
C6_Witness ==
    /\ masks.called
    /\ ~masks.ftt.threw
    /\ RLe(maskCall.width, maskCall.flatWidth)
    /\ plateauValue(R(0), maskCall.centerFreq, maskCall.width, maskCall.flatWidth) = R(1)
    /\ fttPlateauValue(R(0), maskCall.centerFreq, maskCall.width, maskCall.flatWidth) = R(1)

\* the distance of bin i from the centre on the folded axis
binDistance(i) ==
    LET freq == IF 2 * i <= maskCall.size
                THEN Rat(i * sampleRate, maskCall.size)
                ELSE Rat((i - maskCall.size) * sampleRate, maskCall.size)
    IN  RAbs(RSub(RAbs(freq), maskCall.centerFreq))

\* the raised-cosine taper at distance d
taper(d) ==
    RMul(Half, RAdd(R(1), CosPi(RDiv(RSub(d, RMul(maskCall.flatWidth, Half)),
                                     RSub(RMul(maskCall.width, Half),
                                          RMul(maskCall.flatWidth, Half))))))

\* C7: with width > flatWidth >= 0, the mask of the processor is 1 at every
\* bin i # 0 closer to the centre than flatWidth / 2, 0 at every bin at
\* width / 2 or further, the raised-cosine taper in between, and every entry
\* lies in [0, 1]
C7_MaskShape ==
    (masks.called /\ RLt(maskCall.flatWidth, maskCall.width)
        /\ RLe(R(0), maskCall.flatWidth)) =>
        /\ \A i \in 1..(maskCall.size - 1) :
               /\ RLt(binDistance(i), RMul(maskCall.flatWidth, Half)) =>
                      masks.processor[i] = R(1)
               /\ RLe(RMul(maskCall.width, Half), binDistance(i)) =>
                      masks.processor[i] = R(0)
               /\ (/\ RLe(RMul(maskCall.flatWidth, Half), binDistance(i))
                   /\ RLt(binDistance(i), RMul(maskCall.width, Half))) =>
                      masks.processor[i] = taper(binDistance(i))
        /\ \A i \in 0..(maskCall.size - 1) :
               /\ RLe(R(0), masks.processor[i])
               /\ RLe(masks.processor[i], R(1))

\* a mask with a bin in the flat region, a bin on the taper and a bin outside
\* the band, one of them above Nyquist
C7_Witness ==
    /\ masks.called
    /\ maskCall.size <= 8
    /\ RLt(maskCall.flatWidth, maskCall.width)
    /\ \E i, j, k \in 1..(maskCall.size - 1) :
           /\ masks.processor[i] = R(1)
           /\ 2 * i > maskCall.size
           /\ RLt(R(0), masks.processor[j])
           /\ RLt(masks.processor[j], R(1))
           /\ masks.processor[k] = R(0)
           /\ RLe(RMul(maskCall.width, Half), binDistance(k))

-----------------------------------------------------------------------------
(* The lifecycle of a PlateauFilter in the graph *)

\* the connections inside a PlateauFilter
internalLinks(f) ==
    {<<inputNode(f), analyser(f)>>, <<analyser(f), processorNode(f)>>,
     <<processorNode(f), outputNode(f)>>}

\* the filter was disconnected and is connected again: a source feeds its
\* inputNode and its outputNode feeds a destination
reconnected(f) ==
    /\ f \in suspended
    /\ \E l \in links : l[2] = inputNode(f)
    /\ \E l \in links : l[1] = outputNode(f)

\* C10: a PlateauFilter whose processor exists and that was disconnected and
\* connected again has its connections inputNode -> analyser -> processor ->
\* outputNode
C10_LinksRestored ==
    \A f \in FilterIds :
        (procKind[f] \in {"worklet", "script"} /\ reconnected(f)) =>
            internalLinks(f) \subseteq links

-----------------------------------------------------------------------------
(* The construction of a PlateauFilter *)

\* _createWorkletProcessor() of filter f has ended after giving up the worklet
gaveUpWorklet(f) == build[f].phase = "settled" /\ build[f].cause # "none"

\* C11: whenever the worklet is given up (no context.audioWorklet, a protocol
\* other than http and https, addModule rejecting, new AudioWorkletNode
\* throwing) on a page where createScriptProcessor works,
\* _createWorkletProcessor() ends with the ScriptProcessor installed as
\* this.processor, its onaudioprocess set, inputNode -> analyser -> processor
\* -> outputNode connected, and no error thrown to the caller or left in the
\* promise
C11_FallbackInstalled ==
    \A f \in FilterIds :
        (gaveUpWorklet(f) /\ host.scriptProcessor = "creates") =>
            /\ procKind[f] = "script"
            /\ build[f].onaudioprocess
            /\ internalLinks(f) \subseteq links
            /\ ~build[f].thrown
            /\ ~build[f].rejected

\* a filter fell back after the await, on a page whose AudioWorkletNode
\* constructor throws; the error was logged once
C11_Witness ==
    /\ host.scriptProcessor = "creates"
    /\ \E f \in FilterIds :
           /\ gaveUpWorklet(f)
           /\ build[f].cause = "workletNode"
           /\ build[f].errors = 1
           /\ procKind[f] = "script"
           /\ internalLinks(f) \subseteq links

\* C12: when the worklet is given up and _setupFallbackProcessor() fails as
\* well, the failure is reported to the code that constructed the filter, no
\* processor is installed and nothing is connected to outputNode
C12_FailureReported ==
    \A f \in FilterIds :
        (gaveUpWorklet(f) /\ host.scriptProcessor = "throws") =>
            /\ build[f].thrown
            /\ procKind[f] = "undefined"
            /\ ~\E l \in links : l[2] = outputNode(f)


-----------------------------------------------------------------------------
(* The mask and the blocks *)

\* the three parameters that shape the mask
shapeOf(fields) ==
    [centerFreq |-> fields.centerFreq, width |-> fields.width,
     flatWidth |-> fields.flatWidth]

\* C13: the mask is regenerated if and only if centerFreq, width or flatWidth
\* changed since it was last generated: of two blocks processed in full one
\* after the other, the second calls the mask generator exactly when its shape
\* parameters differ from those of the first, and reuses the mask otherwise
C13_MaskCached ==
    [][(/\ blocks' = blocks + 1
        /\ blockInfo.kind = "full"
        /\ blockInfo'.kind = "full") =>
           (blockInfo'.mask > 0 <=> shapeOf(blockInfo'.used) # shapeOf(blockInfo.used))]_vars


-----------------------------------------------------------------------------
(* Parameter messages *)

\* C14: handleMessage sets exactly the fields the record carries to the
\* carried values, leaves every absent field at its previous value, and
\* changes neither the overlap buffer nor the window table (nor the processed
\* frame)
C14_SparseMessage ==
    message.handled =>
        /\ \A name \in ParamNames :
               processor[name] = IF message.data[name] # Undefined
                                 THEN message.data[name]
                                 ELSE message.before[name]
        /\ processor.overlappedOutput = message.before.overlappedOutput
        /\ processor.hanningWindow = message.before.hanningWindow
        /\ processor.processedOutput = message.before.processedOutput

\* a message carrying only flatWidth and gain met a processor that held
\* other values than the defaults and a non-zero overlap buffer
C14_Witness ==
    /\ message.handled
    /\ message.data.centerFreq = Undefined
    /\ message.data.width = Undefined
    /\ message.data.flatWidth = R(9000)
    /\ message.data.gain = R(0)
    /\ message.before.gain = R(1)
    /\ processor.width = R(8000)
    /\ processor.flatWidth = R(9000)
    /\ processor.overlappedOutput # Zeros(fftSize)


-----------------------------------------------------------------------------
(* The symmetry of the mask *)

\* C15: every mask the generators return is symmetric around Nyquist:
\* mask[i] = mask[N - i] for every 0 < i < N, for every centre, width, flat
\* width, sample rate and power-of-two size N
C15_MaskSymmetric ==
    masks.called =>
        /\ \A i \in 1..(maskCall.size - 1) :
               masks.processor[i] = masks.processor[maskCall.size - i]
        /\ ~masks.ftt.threw =>
               \A i \in 1..(maskCall.size - 1) :
                   masks.ftt.mask[i] = masks.ftt.mask[maskCall.size - i]

\* both generators returned a mask of 8 entries with a pair of mirrored bins
\* on the taper and a pair outside the band
C15_Witness ==
    /\ masks.called
    /\ ~masks.ftt.threw
    /\ maskCall.size = 8
    /\ \E i, j \in 1..3 :
           /\ RLt(R(0), masks.processor[i])
           /\ RLt(masks.processor[i], R(1))
           /\ masks.processor[8 - i] = masks.processor[i]
           /\ RLt(R(0), masks.ftt.mask[i])
           /\ masks.ftt.mask[8 - i] = masks.ftt.mask[i]
           /\ masks.processor[j] = R(0)
           /\ masks.processor[8 - j] = R(0)


-----------------------------------------------------------------------------
(* The mask at the band edges *)

\* the bin nearest a frequency given in Hz
nearestBin(hz) == Round(Rat(hz * maskCall.size, sampleRate))

\* the mask of the processor was built for the defaults at 2048 bins, 44100 Hz
boundaryMaskBuilt ==
    /\ masks.called
    /\ maskCall = BoundaryCall
    /\ sampleRate = 44100

\* C16 as stated: for centerFreq = 10000, width = 5000, flatWidth = 2000,
\* N = 2048 and sampleRate = 44100 the mask is exactly 1 at the bin nearest
\* 10000 Hz, exactly 0 at the bins nearest 7500 Hz and 12500 Hz, and exactly 1
\* at the bins nearest 9000 Hz and 11000 Hz
C16_BoundaryExact ==
    boundaryMaskBuilt =>
        /\ masks.processor[nearestBin(10000)] = R(1)
        /\ masks.processor[nearestBin(7500)] = R(0)
        /\ masks.processor[nearestBin(12500)] = R(0)
        /\ masks.processor[nearestBin(9000)] = R(1)
        /\ masks.processor[nearestBin(11000)] = R(1)

\* C16: for the same call the mask is exactly 1 at the bins nearest 10000 Hz
\* and 9000 Hz and exactly 0 at the bin nearest 7500 Hz; the bin nearest
\* 12500 Hz lies below 12500 Hz, inside the band, and the bin nearest 11000 Hz
\* lies above 11000 Hz, outside the flat region, so the mask is on the taper
\* at both, strictly between 0 and 1
C16_BoundaryBins ==
    boundaryMaskBuilt =>
        /\ masks.processor[nearestBin(10000)] = R(1)
        /\ masks.processor[nearestBin(7500)] = R(0)
        /\ masks.processor[nearestBin(9000)] = R(1)
        /\ RLt(foldedFreq(nearestBin(12500), sampleRate, maskCall.size), R(12500))
        /\ RLt(R(0), masks.processor[nearestBin(12500)])
        /\ RLt(masks.processor[nearestBin(12500)], R(1))
        /\ RLt(R(11000), foldedFreq(nearestBin(11000), sampleRate, maskCall.size))
        /\ RLt(R(0), masks.processor[nearestBin(11000)])
        /\ RLt(masks.processor[nearestBin(11000)], R(1))

\* the mask of 2048 entries was built, and the five bins are 464, 348, 580,
\* 418 and 511
C16_Witness ==
    /\ boundaryMaskBuilt
    /\ Length(masks.processor) = 2048
    /\ nearestBin(10000) = 464
    /\ nearestBin(7500) = 348
    /\ nearestBin(12500) = 580
    /\ nearestBin(9000) = 418
    /\ nearestBin(11000) = 511


-----------------------------------------------------------------------------
(* The mask of eight bins *)

\* centerFreq = 1000, width = 200, flatWidth = 100 and N = 8
ScenarioCall ==
    [centerFreq |-> R(1000), width |-> R(200), flatWidth |-> R(100), size |-> 8]

\* the mask worked out by hand: the bins lie at 0, 1000, 2000, 3000, 4000,
\* -3000, -2000 and -1000 Hz
scenarioMask == [i \in 0..7 |-> IF i \in {1, 7} THEN R(1) ELSE R(0)]

\* C17: for centerFreq = 1000, width = 200, flatWidth = 100, N = 8 and
\* sampleRate = 8000 both generators return a mask of 8 entries that is 0 at
\* bin 0, 1 at the bins of +1000 Hz and -1000 Hz and 0 at every other bin
C17_ScenarioMask ==
    (masks.called /\ maskCall = ScenarioCall /\ sampleRate = 8000) =>
        /\ masks.processor = scenarioMask
        /\ ~masks.ftt.threw
        /\ masks.ftt.mask = scenarioMask


-----------------------------------------------------------------------------
(* The frequency response *)

\* the plateau mask at a frequency for the filter's parameters: 1 in the flat
\* region, the taper in the transition, 0 in the stop region
responseMask(freq) ==
    LET d == RAbs(RSub(freq, filter.centerFreq))
        halfFlat == RMul(filter.flatWidth, Half)
        halfWidth == RMul(filter.width, Half)
    IN  IF RLt(d, halfFlat) THEN R(1)
        ELSE IF RLt(d, halfWidth)
             THEN RMul(Half, RAdd(R(1), CosPi(RDiv(RSub(d, halfFlat),
                                                   RSub(halfWidth, halfFlat)))))
             ELSE R(0)

\* C18: calculateFrequencyResponse(minFreq, maxFreq, numPoints) returns
\* numPoints frequencies and numPoints magnitudes for every numPoints >= 1;
\* the frequencies run evenly spaced from minFreq (first) to maxFreq (last);
\* magnitude i is the plateau mask at frequency i times the gain; and the call
\* changes no parameter of the filter
C18_FrequencyResponse ==
    response.called =>
        /\ Length(response.frequencies) = response.numPoints
        /\ Length(response.magnitudes) = response.numPoints
        /\ response.frequencies[0] = response.minFreq
        /\ response.frequencies[response.numPoints - 1] = response.maxFreq
        /\ \A i \in 1..(response.numPoints - 2) :
               RSub(response.frequencies[i + 1], response.frequencies[i])
                   = RSub(response.frequencies[1], response.frequencies[0])
        /\ \A i \in 0..(response.numPoints - 1) :
               response.magnitudes[i]
                   = RMul(responseMask(response.frequencies[i]), filter.gain)
        /\ fieldsOf(filter) = response.before


-----------------------------------------------------------------------------
(* The transforms *)

\* C19: for a real sequence x of length 1, 2 or 4 the real part of
\* ifft(fft(x)) equals x element by element, the imaginary part is 0, and fft
\* and ifft return sequences of the length of x
C19_RoundTrip ==
    roundTrip.done =>
        /\ DOMAIN roundTrip.spectrum = DOMAIN roundTrip.x
        /\ DOMAIN roundTrip.back = DOMAIN roundTrip.x
        /\ \A i \in DOMAIN roundTrip.x :
               /\ roundTrip.back[i].real = roundTrip.x[i]
               /\ roundTrip.back[i].imag = R(0)

\* a sequence of four samples that are not all equal went forth and back, and
\* its spectrum has a bin with an imaginary part
C19_Witness ==
    /\ roundTrip.done
    /\ Length(roundTrip.x) = 4
    /\ roundTrip.x[1] # roundTrip.x[3]
    /\ \E k \in DOMAIN roundTrip.spectrum : roundTrip.spectrum[k].imag # R(0)
    /\ \A i \in DOMAIN roundTrip.x : roundTrip.back[i].real = roundTrip.x[i]


-----------------------------------------------------------------------------
(* The all-pass pipeline *)

\* C20: with the mask forced to 1 and gain 1, every output sample of the
\* stream equals the input sample at the same place times the analysis window
\* at its place in the block
C20_AllPassIdentity ==
    \A k \in DOMAIN allPass.outputs :
        allPass.outputs[k]
            = RMul(allPass.inputs[k], allPass.window[k % AllPassBlockSize])


-----------------------------------------------------------------------------
(* The chain of the generator *)

\* the noise nodes that have an outgoing connection
connectedNoise == {l[1] : l \in {k \in links : k[1][1] = "noiseNode"}}

\* C21: while the generator plays with a non-empty filter list, the noise
\* node feeds the input of the first filter and not gainNode, each filter
\* feeds the next one and the last filter feeds gainNode
C21_ChainWhilePlaying ==
    (isPlaying /\ Len(filters) > 0 /\ noiseNode # 0) =>
        /\ chainLinks(filters, noiseNode) \subseteq links
        /\ <<noise(noiseNode), gainNode>> \notin links

\* C22: once every pending start() has settled, isPlaying tells whether the
\* last call was start(), one noise node is connected when playing and none
\* when stopped
C22_StartStopSettled ==
    (pendingStarts = 0 /\ lastCall # "none") =>
        /\ isPlaying <=> (lastCall = "start")
        /\ isPlaying => Cardinality(connectedNoise) = 1
        /\ ~isPlaying => connectedNoise = {}

-----------------------------------------------------------------------------
(* The parameters of an added filter *)

\* the values are inside the parameter bounds and width > flatWidth
requestable(p) ==
    /\ RLe(R(MinCenterFreq), p.frequency) /\ RLe(p.frequency, R(MaxCenterFreq))
    /\ RLe(R(MinWidth), p.width) /\ RLe(p.width, R(MaxWidth))
    /\ RLe(R(MinFlatWidth), p.flatWidth) /\ RLe(p.flatWidth, R(MaxFlatWidth))
    /\ RLe(R(MinGain), p.gain) /\ RLe(p.gain, R(MaxGain))
    /\ RLt(p.flatWidth, p.width)

\* C23: the filter created by addFilter with requestable values holds
\* exactly the requested centerFreq, width, flatWidth and gain
C23_RequestedValues ==
    (added.done /\ requestable(added.params)) =>
        /\ added.node.centerFreq = added.params.frequency
        /\ added.node.width = added.params.width
        /\ added.node.flatWidth = added.params.flatWidth
        /\ added.node.gain = added.params.gain

-----------------------------------------------------------------------------
(* Parameters set while the worklet module loads *)

\* C24: once the AudioWorkletNode of a filter configured during the load
\* exists, its four parameters equal the fields of the filter
C24_ParametersDelivered ==
    (added.done /\ added.node.processor = "worklet") =>
        added.parameters = fieldsOf(added.node)

\* the setters changed fields while this.processor was undefined and the
\* node was created afterwards
C24_Witness ==
    /\ added.done
    /\ added.node.processor = "worklet"
    /\ fieldsOf(added.node) # fieldsOf(newFilter("worklet"))
    /\ added.parameters = fieldsOf(added.node)

-----------------------------------------------------------------------------
(* The overlap across the fast path *)

\* C25: a block on the gain-zero fast path leaves overlappedOutput,
\* processedOutput and hanningWindow as they were, and the next fully
\* processed block adds the tail the last fully processed block saved
C25_OverlapAcrossBypass ==
    /\ bypass.kind = "bypass" =>
            /\ bypass.processor.overlappedOutput = bypass.before.overlappedOutput
            /\ bypass.processor.processedOutput = bypass.before.processedOutput
            /\ bypass.processor.hanningWindow = bypass.before.hanningWindow
    /\ (bypass.kind = "full" /\ bypass.tailBefore # Undefined) =>
            bypass.output = overlapSum(bypass.processor.processedOutput,
                                       bypass.tailBefore, BlockSize)

\* a fully processed block left a tail, two blocks took the fast path and
\* the next fully processed block played the tail
C25_Witness ==
    /\ bypass.kind = "full"
    /\ bypass.crossed >= 2
    /\ bypass.tailBefore # Undefined
    /\ bypass.tailBefore # Zeros(fftSize)
    /\ bypass.output # Zeros(BlockSize)
    /\ bypass.output = overlapSum(bypass.processor.processedOutput,
                                  bypass.tailBefore, BlockSize)

-----------------------------------------------------------------------------
(* The denominator of the taper *)

\* C26: in each of the three mask implementations, a call that evaluates the
\* taper branch divides by a strictly positive denominator
C26_TaperDenominator ==
    /\ masks.called =>
            /\ processorTapered(maskCall, sampleRate) # {} =>
                    RLt(R(0), processorDenominator(maskCall))
            /\ fttTapered(maskCall, createFrequencyArray(maskCall.size, sampleRate)) # {} =>
                    RLt(R(0), fttDenominator(maskCall))
    /\ response.called =>
            (filterTapered(filter, response.frequencies) # {} =>
                    RLt(R(0), filterDenominator(filter)))

\* a response whose first frequency lies exactly on the outer edge of the
\* band, where _calculateMask takes the taper branch
C26_Witness ==
    /\ response.called
    /\ response.numPoints > 1
    /\ RAbs(RSub(response.frequencies[0], filter.centerFreq)) = RMul(filter.width, Half)
    /\ 0 \in filterTapered(filter, response.frequencies)
    /\ RLt(R(0), filterDenominator(filter))

-----------------------------------------------------------------------------
(* The filters of the page and of the generator *)

\* the filters made by the page and removed from its list
removedInUi == (1..(ui.nextFilterId - 1)) \ Members(ui.filters)

\* C27: with no re-creation timer pending the generator holds the filters
\* the page lists, and a filter removed on the page is never in the
\* generator's list nor connected into its chain
C27_ListsAgree ==
    /\ ui.timers = {} => Members(filters) = Members(ui.filters)
    /\ \A f \in removedInUi :
            /\ f \notin Members(filters)
            /\ \A l \in links : l[2] # inputNode(f)

-----------------------------------------------------------------------------
(* Initialisation happens once *)

\* C28: at most one AudioContext and at most one WhiteNoiseGenerator are
\* ever created
C28_InitialisedOnce ==
    /\ boot.contexts <= 1
    /\ boot.generators <= 1

-----------------------------------------------------------------------------
(* The parameters at the start of the playback *)

\* C29: a playAudio() call that started the playback posted, after its
\* 'play' message and before it returned, a 'parameters' message with the
\* current centerFreq, width, delta and volume
C29_ParametersOnPlay ==
    (player.outcome = "started" /\ player.phase = "idle") =>
        \E i \in 2..Len(player.duringPlay) :
            /\ player.duringPlay[1].type = "play"
            /\ player.duringPlay[i].type = "parameters"
            /\ player.duringPlay[i].parameters = player.atPlay

-----------------------------------------------------------------------------
(* Noise with a fixed seed *)

\* C30: with useRandomSeed false the noise is drawn from a generator seeded
\* with seedValue and two exports with the same settings return the same
\* buffer; two MulberryRNG instances built with the same seed return the
\* same values, each in [0, 1)
C30_FixedSeed ==
    /\ ~seeded.exportParams.useRandomSeed =>
            /\ \A i \in 1..Len(seeded.generated) :
                    seeded.generated[i].seed = seeded.exportParams.seedValue
            /\ \A i, j \in 1..Len(seeded.generated) :
                    seeded.generated[i].buffer = seeded.generated[j].buffer
    /\ \A i \in 1..Len(seeded.firstValues) :
            /\ inUnitInterval(seeded.firstValues[i])
            /\ i <= Len(seeded.secondValues) =>
                    seeded.firstValues[i] = seeded.secondValues[i]

====
